---- MODULE Spec2Model ----
(***************************************************************************)
(* Billing event reconciler of Handbookly-API: the App Router Stripe       *)
(* webhook (src/app/api/stripe/webhook/route.ts).                          *)
(*                                                                         *)
(* The provider issues events (issued), delivers each at least once and    *)
(* in any order; every delivery is one invocation of POST.  An invocation  *)
(* advances one awaited external call at a time (a Supabase REST request   *)
(* or a Stripe API request), and each such call may fail.                  *)
(*                                                                         *)
(* updated_at is a wall-clock timestamp and is left out of the rows.       *)
(***************************************************************************)
EXTENDS Integers, Sequences, FiniteSets, TLC

\* ------------------------------------------------------------------ bounds
\* Number of events the provider issues in one behaviour.
MaxEvents == 2
\* Number of invocation slots of the serverless runtime that the model holds.
MaxInvocations == 2
\* Events issued in the ordering properties.
MaxOrdered == 3
\* Events issued in the resubscription properties.
MaxResub == 3
\* Events issued in the lock properties.
MaxLock == 3
\* Events issued in the concurrency properties.
MaxRacing == 2

\* ------------------------------------------------------------ value domains
Null == "NULL"
Empty == ""

UserIds == {"u1", "u2"}

\* profiles rows that exist: id -> email (the plan column is the state).
ProfileEmail(id) == IF id = "u1" THEN "a@x" ELSE "b@x"

PAID_PLANS == {"starter", "growth", "business"}
Plans == PAID_PLANS \cup {"pending"}

\* String(raw || "").toLowerCase().trim() on the raw plan strings of the model.
LowerTrim(raw) ==
    CASE raw = Null -> Empty
      [] raw = " Growth " -> "growth"
      [] raw = "STARTER" -> "starter"
      [] OTHER -> raw

normalizePlan_Trusting(raw) == IF raw = Null THEN "pending" ELSE raw

normalizePlan(raw) ==
    LET p == LowerTrim(raw)
    IN IF p \in PAID_PLANS THEN p ELSE "pending"

isPaidStatus_ActiveOnly(status) == status = "active"

isPaidStatus_PastDue(status) == status \in {"active", "trialing", "past_due"}

isPaidStatus(status) == status = "active" \/ status = "trialing"

\* JS truthiness of a string-or-null value.
Truthy(v) == v # Null /\ v # Empty

\* a ?? b
Nullish(a, b) == IF a # Null THEN a ELSE b

\* a || b
OrElse(a, b) == IF Truthy(a) THEN a ELSE b

\* `${userId}@unknown.local`
SyntheticEmail(userId) == userId \o "@unknown.local"

\* ------------------------------------------------------------------ events
\* A Stripe event: its type and the fields of data.object that POST reads.
\* A field the payload does not carry is Null.  created is the event's
\* timestamp.  An event's id is modelled by the event itself: two issued
\* events differ in some field.
Event(type, cd_email, c_email, m_email, client_ref, m_userId, sub, customer, m_plan, status, period_end) ==
    [type |-> type, cd_email |-> cd_email, c_email |-> c_email,
     m_email |-> m_email, client_ref |-> client_ref, m_userId |-> m_userId,
     sub |-> sub, customer |-> customer, m_plan |-> m_plan,
     status |-> status, period_end |-> period_end, created |-> 0]

\* No event: the slot has constructed none.
NoEvent == Event(Null, Null, Null, Null, Null, Null, Null, Null, Null, Null, Null)

Statuses == {"active", "trialing", "past_due", "unpaid", "canceled", "incomplete"}

\* checkout.session.completed payloads of the core universe: identified by
\* user id u1 and the email typed at checkout (which is the email of u2's
\* profile), by email only, by user id only, by neither; and one without a
\* plan in its metadata.
CheckoutEvents ==
    { Event("checkout.session.completed", "b@x", Null, Null, "u1", Null, "s1", "c1", p, Null, Null) :
        p \in {"starter", Null} }
    \cup { Event("checkout.session.completed", "a@x", Null, Null, Null, Null, "s1", "c1", "starter", Null, Null),
            Event("checkout.session.completed", Null, Null, Null, "u1", Null, "s1", "c1", "starter", Null, Null),
            Event("checkout.session.completed", Null, Null, Null, Null, Null, "s1", "c1", "starter", Null, Null) }

\* customer.subscription.updated payloads.
UpdatedEvents ==
    { Event("customer.subscription.updated", Null, Null, Null, Null, Null, "s1", Null, "growth", st, "t1") :
        st \in {"active", "trialing", "past_due", "incomplete"} }
    \cup { Event("customer.subscription.updated", Null, Null, Null, Null, Null, "s1", "c1", "gold", "active", Null) }

\* customer.subscription.deleted payloads.
DeletedEvents ==
    { Event("customer.subscription.deleted", Null, Null, Null, Null, Null, "s1", "c1", "growth", "canceled", Null) }

\* invoice.payment_failed and invoice.paid payloads.
InvoiceEvents ==
    { Event(t, Null, Null, Null, Null, Null, s, "c1", Null, Null, Null) :
        t \in {"invoice.payment_failed", "invoice.paid"}, s \in {"s1", Null} }

\* An event type the switch has no case for.
OtherEvents ==
    { Event("customer.created", Null, Null, Null, Null, Null, Null, "c1", Null, Null, Null) }

EventsCore ==
    CheckoutEvents \cup UpdatedEvents \cup DeletedEvents \cup InvoiceEvents
        \cup OtherEvents

\* The universe of the ordering properties: the life of one subscription.
EventsOrder ==
    { e \in EventsCore :
        \/ e.type = "customer.subscription.deleted"
        \/ e.type = "invoice.paid" /\ e.sub # Null
        \/ e.type = "checkout.session.completed" /\ e.m_plan # Null /\ e.cd_email = "b@x"
        \/ e.type = "customer.subscription.updated" /\ e.m_plan = "growth"
              /\ e.status = "active" }

\* The universe of the identity properties: sessions that name the user in
\* client_reference_id and in metadata.userId (two different users), in
\* metadata.userId only (client_reference_id empty or absent), or not at
\* all, with the email in each of its three places; and events that take
\* the identity from the subscriptions row.
EventsIdentity ==
    { Event("checkout.session.completed", "b@x", Null, Null, "u1", "u2", "s1", "c1", "starter", Null, Null),
      Event("checkout.session.completed", Null, "a@x", Null, Empty, "u2", "s1", "c1", "starter", Null, Null),
      Event("checkout.session.completed", Null, Null, "a@x", Null, "u2", "s1", "c1", "growth", Null, Null),
      Event("checkout.session.completed", Null, "a@x", "b@x", Null, Empty, "s1", "c1", "business", Null, Null) }
    \cup { e \in EventsCore :
              \/ e.type = "invoice.paid" /\ e.sub # Null
              \/ e.type = "customer.subscription.updated" /\ e.m_plan = "growth" /\ e.status = "active" }

\* The universe of the resubscription properties: the first subscription s1
\* of user u1 (customer c1) and its end, and a second subscription s2 of the
\* same customer, announced by its checkout session and by
\* customer.subscription.updated; and a session that names nobody.
EventsResub ==
    { e \in EventsCore :
        \/ e.type = "customer.subscription.deleted"
        \/ e.type = "invoice.paid" /\ e.sub # Null
        \/ e.type = "checkout.session.completed" /\ e.m_plan # Null /\ e.cd_email = "b@x"
        \/ e.type = "checkout.session.completed" /\ e.cd_email = Null /\ e.client_ref = Null }
    \cup { Event("checkout.session.completed", "b@x", Null, Null, "u1", Null, "s2", "c1", "growth", Null, Null),
           Event("customer.subscription.updated", Null, Null, Null, Null, Null, "s2", "c1", "growth", "active", "t1") }

\* The universe of the lock properties: a subscription, the two events that
\* lock it and the two that can reopen it.
EventsLock ==
    { e \in EventsCore :
        \/ e.type = "customer.subscription.deleted"
        \/ e.type \in {"invoice.paid", "invoice.payment_failed"} /\ e.sub # Null
        \/ e.type = "checkout.session.completed" /\ e.m_plan # Null /\ e.cd_email = "b@x"
        \/ e.type = "customer.subscription.updated" /\ e.m_plan = "growth"
              /\ e.status = "trialing" }

\* The universe of the uniqueness properties: sessions of subscriptions s1
\* and s2 under different emails, one of them the synthetic email of a
\* session with a user id only, and events that patch the row of s1.
EventsUnique ==
    { e \in EventsCore :
        \/ e.type = "invoice.paid" /\ e.sub # Null
        \/ e.type = "checkout.session.completed" /\ e.m_plan # Null /\ e.cd_email = "b@x"
        \/ e.type = "customer.subscription.updated" /\ e.m_plan = "growth" /\ e.status = "past_due" }
    \cup { Event("checkout.session.completed", Null, Null, Null, "u1", Null, "s2", "c1", "growth", Null, Null),
           Event("checkout.session.completed", "a@x", Null, Null, Null, Null, "s2", "c2", "business", Null, Null) }

\* The universe of the concurrency properties: a subscription's checkout
\* session, its end, and a paid invoice.
EventsRacing ==
    { e \in EventsCore :
        \/ e.type = "customer.subscription.deleted"
        \/ e.type = "invoice.paid" /\ e.sub # Null
        \/ e.type = "checkout.session.completed" /\ e.m_plan # Null /\ e.cd_email = "b@x" }

\* The universe of the redelivery properties.
EventsRedelivery ==
    { e \in EventsCore :
        \/ e.type \in {"customer.subscription.deleted", "customer.created"}
        \/ e.type \in {"invoice.paid", "invoice.payment_failed"} /\ e.sub # Null
        \/ e.type = "checkout.session.completed" /\ e.m_plan # Null /\ e.cd_email = "b@x"
        \/ e.type = "customer.subscription.updated" /\ e.m_plan = "growth"
              /\ e.status \in {"active", "past_due"} }

\* What stripe.subscriptions.retrieve may answer for a subscription.
RetrieveResults ==
    { [plan |-> p, status |-> st] :
        p \in {"business", Null}, st \in {"active", "unpaid"} }

\* ------------------------------------------------------------------- state
VARIABLES
    issued,         \* the events the provider has issued
    subscriptions,  \* the subscriptions table: a set of rows, email unique
    profiles,       \* the profiles table: id -> plan
    stripe_events,  \* the stripe_events ledger: the events marked processed
    ledgerExists,   \* whether the optional stripe_events table was created
    inv,            \* invocation slot -> the state of POST running in it
    prev,           \* the slot's previous invocation and the store it left
    customers,      \* the customers created at the provider
    stripe_customer_of, \* the stripe_customers table: user_id -> stripe_customer_id
    checkout,       \* the create-checkout-session requests that arrived: slot -> handler state
    handbooks,      \* the handbooks table: a set of rows, id unique
    generated       \* the request the generate handlers served last, with its response

\* The state of the create-checkout-session handler.
checkoutVars == <<customers, stripe_customer_of, checkout>>

\* The state of the handbook generate handlers.
handbookVars == <<handbooks, generated>>

vars == <<issued, subscriptions, profiles, stripe_events, ledgerExists, inv, prev,
          checkoutVars, handbookVars>>

Slots == 1..MaxInvocations

\* pc: the call the invocation awaits next; sig: the delivery's signature header;
\* ev: the constructed event; email, userId, plan, status: the locals
\* of the case; calls: the external calls made so far, each with its outcome;
\* resp: the status of the Response returned; route: the handler the request
\* was routed to; method: the request's HTTP method; env: the webhook secrets
\* the multi-secret handler found in its environment.
Idle ==
    [pc |-> "idle", sig |-> Null, ev |-> NoEvent, email |-> Null, userId |-> Null,
     plan |-> Null, status |-> Null, calls |-> <<>>, resp |-> 0,
     route |-> Null, method |-> Null,
     env |-> [STRIPE_WEBHOOK_SECRET |-> Null, STRIPE_CLI_WEBHOOK_SECRET |-> Null]]

NoPrev ==
    [ev |-> NoEvent, ending |-> "other", wrote |-> FALSE, plan |-> Null, status |-> Null,
     subscriptions |-> {}, profiles |-> [u \in UserIds |-> "pending"],
     marked |-> FALSE]

\* pc: the call the handler awaits next; userId, email, plan: the fields of
\* req.body; stripeCustomerId: the local of that name; calls: the external
\* calls made so far, each with its outcome; resp: the status returned.
IdleCheckout ==
    [pc |-> "idle", userId |-> Null, email |-> Null, plan |-> Null,
     stripeCustomerId |-> Null, calls |-> <<>>, resp |-> 0]

\* route: the generate handler the request was routed to; handbookId, userId:
\* the fields of the payload; calls: the external calls made, each with its
\* outcome; resp: the status returned; content_md: the content_md of the
\* response body, Null when the body carries none.
NoRequest ==
    [route |-> Null, handbookId |-> Null, userId |-> Null, calls |-> <<>>,
     resp |-> 0, content_md |-> Null]

Init ==
    /\ issued = {}
    /\ subscriptions = {}
    /\ profiles = [u \in UserIds |-> "pending"]
    /\ stripe_events = {}
    /\ ledgerExists \in BOOLEAN
    /\ inv = [s \in Slots |-> Idle]
    /\ prev = NoPrev
    /\ customers = {}
    /\ stripe_customer_of = [u \in UserIds |-> Null]
    /\ checkout = <<>>
    /\ handbooks = {}
    /\ generated = <<>>

\* ------------------------------------------------------- the keyed-record store
Row(email, user_id, customer, sub, plan, status, period_end) ==
    [email |-> email, user_id |-> user_id, stripe_customer_id |-> customer,
     stripe_subscription_id |-> sub, plan |-> plan, status |-> status,
     current_period_end |-> period_end]

\* An UPDATE of the columns the request body names.
Merge(row, patch) ==
    [f \in DOMAIN row |-> IF f \in DOMAIN patch THEN patch[f] ELSE row[f]]

upsertSubscriptionByEmail_InsertAlways(subs, row) ==
    subs \cup {Merge(Row(Null, Null, Null, Null, Null, Null, Null), row)}

upsertSubscriptionByEmail_InsertOnly(subs, row) ==
    IF \E r \in subs : r.email = row.email
    THEN subs
    ELSE subs \cup {Merge(Row(Null, Null, Null, Null, Null, Null, Null), row)}

upsertSubscriptionByEmail_KeepsSubId(subs, row) ==
    IF \E r \in subs : r.email = row.email
    THEN { IF r.email = row.email
           THEN Merge(r, [f \in DOMAIN row \ {"stripe_subscription_id"} |-> row[f]])
           ELSE r : r \in subs }
    ELSE subs \cup {Merge(Row(Null, Null, Null, Null, Null, Null, Null), row)}

\* POST subscriptions?on_conflict=email with Prefer: resolution=merge-duplicates:
\* INSERT ... ON CONFLICT (email) DO UPDATE of the posted columns.  The body
\* carries no current_period_end (undefined is dropped by JSON.stringify).
upsertSubscriptionByEmail(subs, row) ==
    IF \E r \in subs : r.email = row.email
    THEN { IF r.email = row.email THEN Merge(r, row) ELSE r : r \in subs }
    ELSE subs \cup {Merge(Row(Null, Null, Null, Null, Null, Null, Null), row)}

patchSubscriptionBySubId_DropsUser(subs, subscriptionId, patch) ==
    { IF r.stripe_subscription_id = subscriptionId
      THEN Merge(r, patch @@ [user_id |-> Null]) ELSE r : r \in subs }

patchSubscriptionBySubId_CanceledIsFinal(subs, subscriptionId, patch) ==
    { IF r.stripe_subscription_id = subscriptionId /\ r.status # "canceled"
      THEN Merge(r, patch) ELSE r : r \in subs }

\* PATCH subscriptions?stripe_subscription_id=eq.<id>: every matching row.
patchSubscriptionBySubId(subs, subscriptionId, patch) ==
    { IF r.stripe_subscription_id = subscriptionId
      THEN Merge(r, patch) ELSE r : r \in subs }

findSubscriptionRowBySubId_AnyRow(subs, subscriptionId) ==
    LET rows == { r \in subs : r.stripe_subscription_id = subscriptionId }
    IN IF subs = {}
       THEN { [email |-> Null, userId |-> Null] }
       ELSE { [email |-> r.email, userId |-> r.user_id] : r \in IF rows = {} THEN subs ELSE rows }

\* GET subscriptions?stripe_subscription_id=eq.<id>&select=email,user_id and
\* rows?.[0]: the request states no order, so any matching row may come first.
findSubscriptionRowBySubId(subs, subscriptionId) ==
    LET rows == { r \in subs : r.stripe_subscription_id = subscriptionId }
    IN IF rows = {}
       THEN { [email |-> Null, userId |-> Null] }
       ELSE { [email |-> r.email, userId |-> r.user_id] : r \in rows }

\* PATCH profiles?id=eq.<userId> {plan}
updateProfilePlanById(profs, userId, plan) ==
    [u \in DOMAIN profs |-> IF u = userId THEN plan ELSE profs[u]]

\* PATCH profiles?email=eq.<email> {plan}
updateProfilePlanByEmail(profs, email, plan) ==
    [u \in DOMAIN profs |-> IF ProfileEmail(u) = email THEN plan ELSE profs[u]]

setUserPlan_EmailFirst(profs, userId, email, plan) ==
    IF Truthy(email) THEN updateProfilePlanByEmail(profs, email, plan)
    ELSE IF Truthy(userId) THEN updateProfilePlanById(profs, userId, plan)
    ELSE profs

setUserPlan_IdAndEmail(profs, userId, email, plan) ==
    LET byId == IF Truthy(userId) THEN updateProfilePlanById(profs, userId, plan) ELSE profs
    IN IF Truthy(email) THEN updateProfilePlanByEmail(byId, email, plan) ELSE byId

\* setUserPlan: by id when there is a userId, else by email, else nothing.
setUserPlan(profs, userId, email, plan) ==
    IF Truthy(userId) THEN updateProfilePlanById(profs, userId, plan)
    ELSE IF Truthy(email) THEN updateProfilePlanByEmail(profs, email, plan)
    ELSE profs

\* Whether setUserPlan issues a request at all.
setUserPlanCalls(userId, email) == Truthy(userId) \/ Truthy(email)

\* ------------------------------------------- checkout.session.completed locals
\* session.customer_details?.email ?? session.customer_email ?? session.metadata?.email ?? null
SessionEmail(e) == Nullish(e.cd_email, Nullish(e.c_email, Nullish(e.m_email, Null)))

SessionUserId_MetadataFirst(e) == OrElse(e.m_userId, OrElse(e.client_ref, Null))

\* (typeof client_reference_id === "string" && client_reference_id) || metadata?.userId || null
SessionUserId(e) == OrElse(e.client_ref, OrElse(e.m_userId, Null))

\* ------------------------------------------------------------ POST, by step
Sigs == {"missing", "invalid", "valid"}

\* Outcomes of supabaseFetch: it throws when fetch throws or the response is
\* not ok ("error"); it returns the parsed body ("ok"); and it returns null
\* when the response is ok but its body cannot be read as JSON ("unreadable",
\* res.json().catch(() => null)).
Outcomes == {"ok", "error", "unreadable"}

\* The three webhook handlers of the repository.
AppRoute == "app/api/stripe/webhook/route.ts"
PagesRoute == "pages/api/stripe/webhook.ts"
UnnamedRoute == "unnamed/part_000"

\* A request as the App Router hands it to the exported POST.
Arrived(sig) == [Idle EXCEPT !.sig = sig, !.route = AppRoute, !.method = "POST"]

MissingSignature_Never(sig) == FALSE

\* if (!sig) return 400 "Missing stripe-signature"
MissingSignature(sig) == sig = "missing"

SignatureRejected_Never(sig) == FALSE

\* try { event = stripe.webhooks.constructEvent(body, sig, webhookSecret) }
\* catch { return 400 }: constructEvent throws unless the signature verifies.
SignatureRejected(sig) == sig # "valid"

alreadyProcessed_Never(outcome, rows) == FALSE

alreadyProcessed_FailsClosed(outcome, rows) == outcome # "ok" \/ rows # {}

\* alreadyProcessed: Array.isArray(rows) && rows.length > 0; a throw is caught
\* and is false, and so is an unreadable body (rows is null).
alreadyProcessed(outcome, rows) == outcome = "ok" /\ rows # {}

Logged(slot, op, outcome) == Append(slot.calls, <<op, outcome>>)

\* return new Response(..., { status })
Respond(slot, calls, status) == [slot EXCEPT !.pc = "done", !.calls = calls, !.resp = status]

Dispatch_DefaultCancels(e) ==
    CASE e.type = "checkout.session.completed" ->
            LET email == SessionEmail(e)
                userId == SessionUserId(e)
            IN [pc |-> IF ~Truthy(email) /\ ~Truthy(userId) THEN "mark" ELSE "upsert",
                email |-> email, userId |-> userId,
                plan |-> normalizePlan(e.m_plan), status |-> "active"]
      [] e.type = "customer.subscription.updated" ->
            [pc |-> "find", email |-> Null, userId |-> Null,
             plan |-> normalizePlan(e.m_plan), status |-> e.status]
      [] e.type = "invoice.payment_failed" ->
            [pc |-> IF e.sub = Null THEN "mark" ELSE "find", email |-> Null,
             userId |-> Null, plan |-> Null, status |-> "past_due"]
      [] e.type = "invoice.paid" ->
            [pc |-> IF e.sub = Null THEN "mark" ELSE "retrieve", email |-> Null,
             userId |-> Null, plan |-> Null, status |-> Null]
      [] e.type = "customer.subscription.deleted" ->
            [pc |-> "find", email |-> Null, userId |-> Null, plan |-> Null,
             status |-> "canceled"]
      [] OTHER ->
            [pc |-> "find", email |-> Null, userId |-> Null, plan |-> Null,
             status |-> "canceled"]

\* The locals each case of the switch computes before its first await, and
\* the call it awaits first ("mark" when the case breaks at once).
Dispatch(e) ==
    CASE e.type = "checkout.session.completed" ->
            LET email == SessionEmail(e)
                userId == SessionUserId(e)
            IN [pc |-> IF ~Truthy(email) /\ ~Truthy(userId) THEN "mark" ELSE "upsert",
                email |-> email, userId |-> userId,
                plan |-> normalizePlan(e.m_plan), status |-> "active"]
      [] e.type = "customer.subscription.updated" ->
            [pc |-> "find", email |-> Null, userId |-> Null,
             plan |-> normalizePlan(e.m_plan), status |-> e.status]
      [] e.type = "invoice.payment_failed" ->
            [pc |-> IF e.sub = Null THEN "mark" ELSE "find", email |-> Null,
             userId |-> Null, plan |-> Null, status |-> "past_due"]
      [] e.type = "invoice.paid" ->
            [pc |-> IF e.sub = Null THEN "mark" ELSE "retrieve", email |-> Null,
             userId |-> Null, plan |-> Null, status |-> Null]
      [] e.type = "customer.subscription.deleted" ->
            [pc |-> "find", email |-> Null, userId |-> Null, plan |-> Null,
             status |-> "canceled"]
      [] OTHER ->
            [pc |-> "mark", email |-> Null, userId |-> Null, plan |-> Null,
             status |-> Null]

CheckoutRow_NoStatus(e, slot) ==
    [email |-> OrElse(slot.email, SyntheticEmail(slot.userId)),
     user_id |-> slot.userId, stripe_customer_id |-> e.customer,
     stripe_subscription_id |-> e.sub, plan |-> slot.plan]

\* The row checkout.session.completed posts.
CheckoutRow(e, slot) ==
    [email |-> OrElse(slot.email, SyntheticEmail(slot.userId)),
     user_id |-> slot.userId, stripe_customer_id |-> e.customer,
     stripe_subscription_id |-> e.sub, plan |-> slot.plan, status |-> "active"]

PatchOf_FailedUnpaid(e, slot) ==
    CASE e.type = "customer.subscription.updated" ->
            [stripe_customer_id |-> e.customer, plan |-> slot.plan,
             status |-> slot.status, current_period_end |-> e.period_end]
      [] e.type = "invoice.paid" -> [plan |-> slot.plan, status |-> slot.status]
      [] e.type = "invoice.payment_failed" -> [status |-> "unpaid"]
      [] OTHER -> [status |-> "canceled"]

PatchOf_ForcedResetsPlan(e, slot) ==
    CASE e.type = "customer.subscription.updated" ->
            [stripe_customer_id |-> e.customer, plan |-> slot.plan,
             status |-> slot.status, current_period_end |-> e.period_end]
      [] e.type = "invoice.paid" -> [plan |-> slot.plan, status |-> slot.status]
      [] e.type = "invoice.payment_failed" -> [status |-> "past_due", plan |-> "pending"]
      [] OTHER -> [status |-> "canceled", plan |-> "pending"]

PatchOf_PaidMeansActive(e, slot) ==
    CASE e.type = "customer.subscription.updated" ->
            [stripe_customer_id |-> e.customer, plan |-> slot.plan,
             status |-> slot.status, current_period_end |-> e.period_end]
      [] e.type = "invoice.paid" -> [status |-> "active"]
      [] e.type = "invoice.payment_failed" -> [status |-> "past_due"]
      [] OTHER -> [status |-> "canceled"]

\* The body each case patches the subscriptions rows with.
PatchOf(e, slot) ==
    CASE e.type = "customer.subscription.updated" ->
            [stripe_customer_id |-> e.customer, plan |-> slot.plan,
             status |-> slot.status, current_period_end |-> e.period_end]
      [] e.type = "invoice.paid" -> [plan |-> slot.plan, status |-> slot.status]
      [] e.type = "invoice.payment_failed" -> [status |-> "past_due"]
      [] OTHER -> [status |-> "canceled"]

NextPlan_KeepsPaidProfile(e, slot) ==
    LET computed == CASE e.type = "checkout.session.completed" -> slot.plan
                      [] e.type \in {"customer.subscription.updated", "invoice.paid"} ->
                            IF isPaidStatus(slot.status) THEN slot.plan ELSE "pending"
                      [] OTHER -> "pending"
        held == { profiles[u] : u \in { v \in UserIds : IF Truthy(slot.userId)
                                                        THEN v = slot.userId
                                                        ELSE ProfileEmail(v) = slot.email } }
    IN IF computed = "pending" /\ held \cap PAID_PLANS # {}
       THEN CHOOSE p \in held \cap PAID_PLANS : TRUE
       ELSE computed

\* The plan each case hands to setUserPlan.
NextPlan(e, slot) ==
    CASE e.type = "checkout.session.completed" -> slot.plan
      [] e.type \in {"customer.subscription.updated", "invoice.paid"} ->
            IF isPaidStatus(slot.status) THEN slot.plan ELSE "pending"
      [] OTHER -> "pending"

OnThrow_Acknowledges(slot, calls) == Respond(slot, calls, 200)

OnThrow_SkipsFailedWrite(slot, calls) ==
    IF calls[Len(calls)][1] \in {"subscriptions.post", "subscriptions.patch"}
    THEN [slot EXCEPT !.calls = calls, !.pc = "setplan"]
    ELSE Respond(slot, calls, 500)

OnThrow_MarksProcessed(slot, calls) == [slot EXCEPT !.calls = calls, !.pc = "mark"]

\* catch (e) { return new Response("Webhook handler error", { status: 500 }) }
OnThrow(slot, calls) == Respond(slot, calls, 500)

\* The provider issues a new event.  A checkout session creates its own
\* subscription: no two sessions complete with the same subscription id.
\* With stamped, event.created tells the order of issue.
Issue(U, maxEv, stamped) ==
    /\ Cardinality(issued) < maxEv
    /\ \E p \in U :
        LET e == IF stamped THEN [p EXCEPT !.created = Cardinality(issued) + 1] ELSE p
        IN /\ \A i \in issued : [i EXCEPT !.created = 0] # p
           /\ (e.type = "checkout.session.completed" /\ e.sub # Null) =>
                 \A i \in issued : ~(i.type = e.type /\ i.sub = e.sub)
           /\ issued' = issued \cup {e}
    /\ UNCHANGED <<subscriptions, profiles, stripe_events, ledgerExists, checkoutVars, handbookVars, inv, prev>>

Range(seq) == { seq[i] : i \in 1..Len(seq) }

\* The calls of steps 3-5: every call but the ledger's and constructEvent.
ApplyOps ==
    {"subscriptions.post", "subscriptions.get", "subscriptions.patch",
     "profiles.patch", "stripe.subscriptions.retrieve"}

\* No call of steps 3-5 failed.
AllOkCalls(calls) == \A c \in Range(calls) : c[1] \in ApplyOps => c[2] = "ok"

\* The subscriptions write succeeded and the profiles write that followed threw.
PartialFailure(calls) ==
    /\ \/ <<"subscriptions.post", "ok">> \in Range(calls)
       \/ <<"subscriptions.patch", "ok">> \in Range(calls)
    /\ <<"profiles.patch", "error">> \in Range(calls)

\* How an invocation ended, as far as the next delivery of its event cares:
\* applied the event with no failed call and answered 200, answered 200 at the
\* de-duplication, failed between the two writes, or other.
Ending(slot) ==
    IF slot.resp = 200 /\ AllOkCalls(slot.calls)
    THEN IF \E c \in Range(slot.calls) : c[1] = "stripe_events.post" THEN "applied" ELSE "deduped"
    ELSE IF PartialFailure(slot.calls) THEN "partial"
    ELSE "other"

\* Event e can reopen the subscription that event last locked.
Reopens(last, e) ==
    /\ last.type \in {"customer.subscription.deleted", "invoice.payment_failed"}
    /\ e.type \in {"customer.subscription.updated", "invoice.paid"}
    /\ last.sub # Null
    /\ last.sub = e.sub

\* A delivery arrives: the header check, then constructEvent.  With track,
\* a verified delivery of the event the slot handled last, or of an event
\* issued before it, or of an event that can reopen the subscription the last
\* one locked, remembers how that invocation ended and the tables as it left
\* them.
Receive(s, track) ==
    /\ inv[s].pc \in {"idle", "done"}
    /\ \E e \in issued, sig \in Sigs :
        /\ inv' = [inv EXCEPT ![s] =
              IF MissingSignature(sig) THEN Respond(Arrived(sig), <<>>, 400)
              ELSE IF SignatureRejected(sig)
                   THEN Respond(Arrived(sig), <<<<"constructEvent", "error">>>>, 400)
                   ELSE [Arrived(sig) EXCEPT !.pc = "dedupe", !.ev = e,
                                             !.calls = <<<<"constructEvent", "ok">>>>]]
        /\ prev' = IF track /\ sig = "valid"
                                /\ (inv[s].ev = e \/ inv[s].ev.created > e.created
                                      \/ Reopens(inv[s].ev, e))
                                /\ Ending(inv[s]) # "other"
                   THEN [ev |-> inv[s].ev, ending |-> Ending(inv[s]),
                         wrote |-> <<"profiles.patch", "ok">> \in Range(inv[s].calls),
                         plan |-> inv[s].plan, status |-> inv[s].status,
                         subscriptions |-> subscriptions, profiles |-> profiles,
                         marked |-> inv[s].ev \in stripe_events]
                   ELSE NoPrev
    /\ UNCHANGED <<issued, subscriptions, profiles, stripe_events, ledgerExists, checkoutVars, handbookVars>>

\* if (await alreadyProcessed(event.id)) return 200; else enter the switch.
Dedupe(s) ==
    /\ inv[s].pc = "dedupe"
    /\ \E outcome \in Outcomes :
        /\ outcome = "ok" => ledgerExists
        /\ LET calls == Logged(inv[s], "stripe_events.get", outcome)
               rows == stripe_events \cap {inv[s].ev}
               d == Dispatch(inv[s].ev)
           IN inv' = [inv EXCEPT ![s] =
                IF alreadyProcessed(outcome, rows)
                THEN Respond(inv[s], calls, 200)
                ELSE [inv[s] EXCEPT !.pc = d.pc, !.email = d.email,
                                    !.userId = d.userId, !.plan = d.plan,
                                    !.status = d.status, !.calls = calls]]
    /\ UNCHANGED <<issued, subscriptions, profiles, stripe_events, ledgerExists, checkoutVars, handbookVars, prev>>

Upsert_AlwaysSetsPlan(s) ==
    /\ inv[s].pc = "upsert"
    /\ \E outcome \in {"ok", "error"} :
         LET e == inv[s].ev
             calls == Logged(inv[s], "subscriptions.post", outcome)
         IN IF outcome = "ok"
            THEN /\ subscriptions' =
                       upsertSubscriptionByEmail(subscriptions, CheckoutRow(e, inv[s]))
                 /\ inv' = [inv EXCEPT ![s] =
                       [inv[s] EXCEPT !.calls = calls, !.pc = "setplan"]]
            ELSE /\ inv' = [inv EXCEPT ![s] = OnThrow(inv[s], calls)]
                 /\ UNCHANGED subscriptions
    /\ UNCHANGED <<issued, profiles, stripe_events, ledgerExists, checkoutVars, handbookVars, prev>>

\* await upsertSubscriptionByEmail({...}); if (plan !== "pending") setUserPlan
Upsert(s) ==
    /\ inv[s].pc = "upsert"
    /\ \E outcome \in {"ok", "error"} :
         LET e == inv[s].ev
             calls == Logged(inv[s], "subscriptions.post", outcome)
         IN IF outcome = "ok"
            THEN /\ subscriptions' =
                       upsertSubscriptionByEmail(subscriptions, CheckoutRow(e, inv[s]))
                 /\ inv' = [inv EXCEPT ![s] =
                       [inv[s] EXCEPT !.calls = calls,
                          !.pc = IF inv[s].plan # "pending" THEN "setplan" ELSE "mark"]]
            ELSE /\ inv' = [inv EXCEPT ![s] = OnThrow(inv[s], calls)]
                 /\ UNCHANGED subscriptions
    /\ UNCHANGED <<issued, profiles, stripe_events, ledgerExists, checkoutVars, handbookVars, prev>>

\* const sub = await stripe.subscriptions.retrieve(subscriptionId)
Retrieve(s) ==
    /\ inv[s].pc = "retrieve"
    /\ \/ \E r \in RetrieveResults :
            inv' = [inv EXCEPT ![s] =
               [inv[s] EXCEPT !.pc = "find", !.plan = normalizePlan(r.plan),
                  !.status = r.status,
                  !.calls = Logged(inv[s], "stripe.subscriptions.retrieve", "ok")]]
       \/ inv' = [inv EXCEPT ![s] =
             OnThrow(inv[s], Logged(inv[s], "stripe.subscriptions.retrieve", "error"))]
    /\ UNCHANGED <<issued, subscriptions, profiles, stripe_events, ledgerExists, checkoutVars, handbookVars, prev>>

\* const { email, userId } = await findSubscriptionRowBySubId(subscriptionId):
\* an unreadable body is rows = null, so both are null.
Find(s) ==
    /\ inv[s].pc = "find"
    /\ \/ \E r \in findSubscriptionRowBySubId(subscriptions, inv[s].ev.sub) :
            inv' = [inv EXCEPT ![s] =
               [inv[s] EXCEPT !.pc = "patch", !.email = r.email, !.userId = r.userId,
                  !.calls = Logged(inv[s], "subscriptions.get", "ok")]]
       \/ inv' = [inv EXCEPT ![s] =
               [inv[s] EXCEPT !.pc = "patch", !.email = Null, !.userId = Null,
                  !.calls = Logged(inv[s], "subscriptions.get", "unreadable")]]
       \/ inv' = [inv EXCEPT ![s] =
             OnThrow(inv[s], Logged(inv[s], "subscriptions.get", "error"))]
    /\ UNCHANGED <<issued, subscriptions, profiles, stripe_events, ledgerExists, checkoutVars, handbookVars, prev>>

\* await patchSubscriptionBySubId(subscriptionId, {...})
Patch(s) ==
    /\ inv[s].pc = "patch"
    /\ \E outcome \in {"ok", "error"} :
         LET e == inv[s].ev
             calls == Logged(inv[s], "subscriptions.patch", outcome)
         IN IF outcome = "ok"
            THEN /\ subscriptions' =
                       patchSubscriptionBySubId(subscriptions, e.sub, PatchOf(e, inv[s]))
                 /\ inv' = [inv EXCEPT ![s] =
                       [inv[s] EXCEPT !.calls = calls, !.pc = "setplan"]]
            ELSE /\ inv' = [inv EXCEPT ![s] = OnThrow(inv[s], calls)]
                 /\ UNCHANGED subscriptions
    /\ UNCHANGED <<issued, profiles, stripe_events, ledgerExists, checkoutVars, handbookVars, prev>>

\* await setUserPlan(userId, email, nextPlan)
SetPlan(s) ==
    /\ inv[s].pc = "setplan"
    /\ LET e == inv[s].ev
           called == setUserPlanCalls(inv[s].userId, inv[s].email)
       IN \E outcome \in {"ok", "error"} :
            /\ ~called => outcome = "ok"
            /\ LET calls == IF called THEN Logged(inv[s], "profiles.patch", outcome)
                            ELSE inv[s].calls
               IN IF outcome = "ok"
                  THEN /\ profiles' = setUserPlan(profiles, inv[s].userId,
                                                  inv[s].email, NextPlan(e, inv[s]))
                       /\ inv' = [inv EXCEPT ![s] =
                             [inv[s] EXCEPT !.calls = calls, !.pc = "mark"]]
                  ELSE /\ inv' = [inv EXCEPT ![s] = OnThrow(inv[s], calls)]
                       /\ UNCHANGED profiles
    /\ UNCHANGED <<issued, subscriptions, stripe_events, ledgerExists, checkoutVars, handbookVars, prev>>

\* await markProcessed(event.id) (a failed POST is caught and ignored); 200.
Mark(s) ==
    /\ inv[s].pc = "mark"
    /\ \E outcome \in {"ok", "error"} :
        /\ outcome = "ok" => ledgerExists
        /\ stripe_events' = IF outcome = "ok" THEN stripe_events \cup {inv[s].ev}
                            ELSE stripe_events
        /\ inv' = [inv EXCEPT ![s] =
              Respond(inv[s], Logged(inv[s], "stripe_events.post", outcome), 200)]
    /\ UNCHANGED <<issued, subscriptions, profiles, ledgerExists, checkoutVars, handbookVars, prev>>

Step(s, track) ==
    \/ Receive(s, track)
    \/ Dedupe(s)
    \/ Upsert(s)
    \/ Retrieve(s)
    \/ Find(s)
    \/ Patch(s)
    \/ SetPlan(s)
    \/ Mark(s)

\* One invocation at a time: deliveries handled one after the other.
Next == Issue(EventsCore, MaxEvents, FALSE) \/ Step(1, FALSE)

Spec == Init /\ [][Next]_vars


\* The bound of the subscription-created specification's events.
MaxCreated == 2

\* The universe of subscription-created handling: the checkout of s1 and the
\* events of the subscription it creates.
EventsCreated ==
    { Event("checkout.session.completed", "b@x", Null, Null, "u1", Null, "s1", "c1", "starter", Null, Null),
      Event("customer.subscription.created", Null, Null, Null, Null, Null, "s1", "c1", "growth", "active", "t1"),
      Event("customer.subscription.created", Null, Null, Null, Null, Null, "s1", "c1", "growth", "incomplete", "t1"),
      Event("customer.subscription.updated", Null, Null, Null, Null, Null, "s1", "c1", "growth", "active", "t1"),
      Event("invoice.paid", Null, Null, Null, Null, Null, "s1", "c1", Null, Null, Null) }

NextCreated == Issue(EventsCreated, MaxCreated, FALSE) \/ Step(1, FALSE)

SpecCreated == Init /\ [][NextCreated]_vars

\* The bound of the metadata-fallback specification's events.
MaxFallback == 2

\* Subscription events whose own metadata names the user (userId, email), as
\* create-checkout-session sets it, for a subscription with and without a
\* stored row.
EventsFallback ==
    { Event("checkout.session.completed", "b@x", Null, Null, "u1", Null, "s1", "c1", "starter", Null, Null),
      Event("customer.subscription.updated", Null, Null, "b@x", Null, "u1", "s1", "c1", "growth", "active", "t1"),
      Event("customer.subscription.updated", Null, Null, "b@x", Null, "u1", "s2", "c1", "growth", "active", "t1"),
      Event("customer.subscription.updated", Null, Null, "b@x", Null, Null, "s2", "c1", "business", "past_due", "t1"),
      Event("invoice.paid", Null, Null, Null, Null, Null, "s1", "c1", Null, Null, Null) }

NextFallback == Issue(EventsFallback, MaxFallback, FALSE) \/ Step(1, FALSE)

SpecFallback == Init /\ [][NextFallback]_vars

\* The bound of the pending-checkout specification's events.
MaxPending == 2

\* The universe of the pending-checkout properties: the checkout of user u1
\* for a paid tier, and a later checkout of the same user whose metadata plan
\* is missing, names no tier, or names a tier in another spelling; and a paid
\* invoice of the first subscription.
EventsPending ==
    { Event("checkout.session.completed", "b@x", Null, Null, "u1", Null, "s1", "c1", "starter", Null, Null) }
    \cup { Event("checkout.session.completed", "b@x", Null, Null, "u1", Null, "s2", "c1", p, Null, Null) :
              p \in {Null, "gold", " Growth "} }
    \cup { Event("checkout.session.completed", "a@x", Null, Null, Null, Null, "s3", "c2", Empty, Null, Null),
           Event("invoice.paid", Null, Null, Null, Null, Null, "s1", "c1", Null, Null, Null) }

NextPending == Issue(EventsPending, MaxPending, FALSE) \/ Step(1, FALSE)

SpecPending == Init /\ [][NextPending]_vars

\* The bound of the superseded-subscription specification's events.
MaxSuperseded == 3

\* The universe of the superseded-subscription properties: two checkouts of
\* the same email, for subscriptions s1 and s2, and the events of s1 that
\* arrive later.
EventsSuperseded ==
    { Event("checkout.session.completed", "b@x", Null, Null, "u1", Null, "s1", "c1", "starter", Null, Null),
      Event("checkout.session.completed", "b@x", Null, Null, "u1", Null, "s2", "c1", "growth", Null, Null),
      Event("customer.subscription.deleted", Null, Null, Null, Null, Null, "s1", "c1", "starter", "canceled", Null),
      Event("invoice.payment_failed", Null, Null, Null, Null, Null, "s1", "c1", Null, Null, Null),
      Event("invoice.paid", Null, Null, Null, Null, Null, "s2", "c1", Null, Null, Null) }

NextSuperseded == Issue(EventsSuperseded, MaxSuperseded, FALSE) \/ Step(1, FALSE)

SpecSuperseded == Init /\ [][NextSuperseded]_vars

\* The bound of the user-isolation specification's events.
MaxIsolation == 3

\* The universe of the user-isolation properties: the checkouts of two users,
\* each carrying the email of the other's profile, a checkout identified by
\* email only, and later events of the two subscriptions.
EventsIsolation ==
    { Event("checkout.session.completed", "b@x", Null, Null, "u1", Null, "s1", "c1", "starter", Null, Null),
      Event("checkout.session.completed", "a@x", Null, Null, Null, "u2", "s2", "c2", "growth", Null, Null),
      Event("checkout.session.completed", "b@x", Null, Null, Null, Null, "s3", "c3", "business", Null, Null),
      Event("customer.subscription.deleted", Null, Null, Null, Null, Null, "s2", "c2", "growth", "canceled", Null),
      Event("invoice.paid", Null, Null, Null, Null, Null, "s1", "c1", Null, Null, Null) }

NextIsolation == Issue(EventsIsolation, MaxIsolation, FALSE) \/ Step(1, FALSE)

SpecIsolation == Init /\ [][NextIsolation]_vars

\* One invocation at a time, each delivery remembering the one before it.
NextRedelivery == Issue(EventsRedelivery, MaxEvents, FALSE) \/ Step(1, TRUE)

SpecRedelivery == Init /\ [][NextRedelivery]_vars

\* One invocation at a time, the events stamped in the order of issue and
\* delivered in any order.
NextOrder == Issue(EventsOrder, MaxOrdered, TRUE) \/ Step(1, TRUE)

SpecOrder == Init /\ [][NextOrder]_vars

\* One invocation at a time, over the sessions of the identity properties.
NextIdentity == Issue(EventsIdentity, MaxEvents, FALSE) \/ Step(1, FALSE)

SpecIdentity == Init /\ [][NextIdentity]_vars

\* One invocation at a time, over two subscriptions of one customer.
NextResub == Issue(EventsResub, MaxResub, FALSE) \/ Step(1, FALSE)

SpecResub == Init /\ [][NextResub]_vars

\* One invocation at a time, each delivery remembering the one before it,
\* over the events that lock and reopen a subscription.
NextLock == Issue(EventsLock, MaxLock, FALSE) \/ Step(1, TRUE)

SpecLock == Init /\ [][NextLock]_vars

\* One invocation at a time, over sessions under different emails.
NextUnique == Issue(EventsUnique, MaxEvents, FALSE) \/ Step(1, FALSE)

SpecUnique == Init /\ [][NextUnique]_vars

Busy(s) == inv[s].pc \notin {"idle", "done"}

\* A step of the invocation in slot s when invocations run concurrently.
\* Deliveries are handled one after the other in slot 1 until another
\* delivery arrives while one is being handled: each further slot takes one
\* delivery, while every slot before it is running, and slot 1 takes no new
\* delivery once another slot is in use.
ConcurrentStep(s) ==
    /\ Busy(s) \/ IF s = 1 THEN \A t \in Slots \ {1} : inv[t].pc = "idle"
                   ELSE inv[s].pc = "idle" /\ \A t \in Slots : t < s => Busy(t)
    /\ Step(s, FALSE)

\* Invocations run concurrently, one per slot: each step is one awaited call
\* of one invocation, and the calls of different invocations interleave in
\* any order.
NextConcurrent == Issue(EventsRacing, MaxRacing, FALSE) \/ \E s \in Slots : ConcurrentStep(s)

SpecConcurrent == Init /\ [][NextConcurrent]_vars

\* --------------------------------------------- the other webhook handlers
\* The bound of the method-gate specification's events.
MaxGate == 2

Methods == {"POST", "GET", "PUT"}

PriceIds == {"price_growth", "price_business", "price_other"}

\* The supabase-js client does not throw: a call returns { data, error }.
ClientOutcomes == {"ok", "error"}

\* The stripe_customers rows the Pages create-checkout-session handler has
\* stored; the webhook handlers only read the table.
stripe_customers == { [user_id |-> "u1", stripe_customer_id |-> "c1"] }

EventsGate ==
    { Event("checkout.session.completed", "b@x", Null, Null, "u1", Null, "s1", "c1", "starter", Null, Null),
      Event("customer.subscription.updated", Null, Null, Null, Null, Null, "s1", "c1", "growth", "active", "t1"),
      Event("customer.subscription.deleted", Null, Null, Null, Null, Null, "s1", "c1", "growth", "canceled", Null),
      Event("customer.subscription.deleted", Null, Null, Null, Null, Null, "s2", "c2", "growth", "canceled", Null),
      Event("invoice.paid", Null, Null, Null, Null, Null, "s1", "c1", Null, Null, Null) }

\* What a handler that runs in one piece returns and leaves behind.
Handled(e, calls, status, profs) ==
    [ev |-> e, calls |-> calls, resp |-> status, profiles |-> profs]

\* export async function GET() { return 405 }
GET(s) ==
    /\ inv[s].pc \in {"idle", "done"}
    /\ inv' = [inv EXCEPT ![s] =
          Respond([Idle EXCEPT !.route = AppRoute, !.method = "GET"], <<>>, 405)]
    /\ prev' = NoPrev
    /\ UNCHANGED <<issued, subscriptions, profiles, stripe_events, ledgerExists, checkoutVars, handbookVars>>

\* pages/api/stripe/webhook.ts
planFromPriceId(priceId) ==
    IF priceId = "price_growth" THEN "pro"
    ELSE IF priceId = "price_business" THEN "business"
    ELSE "free"

\* pages/api/stripe/webhook.ts, the second try block: the event is verified.
\* price is the price id on the fetched subscription (checkout) or on the
\* event's subscription object; mapped, fetched, updated are the outcomes of
\* the stripe_customers select, of stripe.subscriptions.retrieve and of the
\* profiles update.
handler_pages_event(e, price, mapped, fetched, updated, profs) ==
    LET verified == <<<<"constructEvent", "ok">>>>
        selected == Append(verified, <<"stripe_customers.select", mapped>>)
        mapping == { r \in stripe_customers : r.stripe_customer_id = e.customer }
        user_id == (CHOOSE r \in mapping : TRUE).user_id
        fetches == e.type = "checkout.session.completed" /\ Truthy(e.sub)
        retrieved == IF fetches
                     THEN Append(selected, <<"stripe.subscriptions.retrieve", fetched>>)
                     ELSE selected
        priceId == IF fetches \/ e.type # "checkout.session.completed" THEN price
                   ELSE Null
        written == Append(IF e.type = "customer.subscription.deleted" THEN selected
                          ELSE retrieved, <<"profiles.update", updated>>)
    IN IF e.type \in {"checkout.session.completed", "customer.subscription.created",
                      "customer.subscription.updated"}
       THEN IF ~Truthy(e.customer) THEN Handled(e, verified, 200, profs)
            ELSE IF mapped = "error" THEN Handled(e, selected, 500, profs)
            ELSE IF mapping = {} THEN Handled(e, selected, 200, profs)
            ELSE IF fetches /\ fetched = "error" THEN Handled(e, retrieved, 500, profs)
            ELSE IF ~Truthy(priceId) THEN Handled(e, retrieved, 200, profs)
            ELSE IF updated = "error" THEN Handled(e, written, 500, profs)
            ELSE Handled(e, written, 200,
                         updateProfilePlanById(profs, user_id, planFromPriceId(priceId)))
       ELSE IF e.type = "customer.subscription.deleted"
       THEN IF ~Truthy(e.customer) THEN Handled(e, verified, 200, profs)
            ELSE IF mapped = "error" THEN Handled(e, selected, 500, profs)
            ELSE IF mapping = {} THEN Handled(e, selected, 200, profs)
            ELSE IF updated = "error" THEN Handled(e, written, 500, profs)
            ELSE Handled(e, written, 200, updateProfilePlanById(profs, user_id, "free"))
       ELSE Handled(e, verified, 200, profs)

\* pages/api/stripe/webhook.ts handler: the signature header, constructEvent,
\* then the event; req.method is not read.
handler_pages(method, sig, e, price, mapped, fetched, updated, profs) ==
    IF MissingSignature(sig) THEN Handled(NoEvent, <<>>, 400, profs)
    ELSE IF SignatureRejected(sig)
    THEN Handled(NoEvent, <<<<"constructEvent", "error">>>>, 400, profs)
    ELSE handler_pages_event(e, price, mapped, fetched, updated, profs)

\* unnamed/part_000
planFromPrice(priceId) ==
    IF ~Truthy(priceId) THEN Null
    ELSE IF priceId = "price_growth" THEN "pro"
    ELSE IF priceId = "price_business" THEN "business"
    ELSE Null

\* unnamed/part_000 handler, with the environment configured: the method,
\* the signature header, constructEvent (a throw is answered 400), then the
\* event.  user_id, target_plan are the metadata the event's object carries
\* and price its first item's price id.
handler_part000(method, sig, e, user_id, target_plan, price, updated, profs) ==
    LET verified == <<<<"constructEvent", "ok">>>>
        written == Append(verified, <<"profiles.update", updated>>)
        nextPlan == IF e.type = "checkout.session.completed" THEN target_plan
                    ELSE planFromPrice(price)
        updates == IF e.type = "checkout.session.completed"
                   THEN target_plan \in {"pro", "business"}
                   ELSE Truthy(user_id) /\ nextPlan # Null
    IN IF method # "POST" THEN Handled(NoEvent, <<>>, 405, profs)
       ELSE IF MissingSignature(sig) THEN Handled(NoEvent, <<>>, 400, profs)
       ELSE IF SignatureRejected(sig)
       THEN Handled(NoEvent, <<<<"constructEvent", "error">>>>, 400, profs)
       ELSE IF e.type \in {"checkout.session.completed", "customer.subscription.created",
                           "customer.subscription.updated", "invoice.paid"}
                 /\ updates
       THEN IF updated = "error" THEN Handled(e, written, 500, profs)
            ELSE Handled(e, written, 200, updateProfilePlanById(profs, user_id, nextPlan))
       ELSE Handled(e, verified, 200, profs)

\* A request of any method reaches a handler and is served to its end.
Serve(s, route, method, sig, r) ==
    /\ inv' = [inv EXCEPT ![s] =
          Respond([Idle EXCEPT !.route = route, !.method = method, !.sig = sig,
                               !.ev = r.ev], r.calls, r.resp)]
    /\ profiles' = r.profiles
    /\ prev' = NoPrev
    /\ UNCHANGED <<issued, subscriptions, stripe_events, ledgerExists, checkoutVars, handbookVars>>

\* The outcomes of the three client calls of one request: at most one fails
\* (the handler returns at the first failure).
ClientRuns ==
    { <<"ok", "ok", "ok">>, <<"error", "ok", "ok">>, <<"ok", "error", "ok">>,
      <<"ok", "ok", "error">> }

\* What the object of an event carries for the unnamed handler: metadata
\* user_id and target_plan, and the first item's price id.
Payloads ==
    { [user_id |-> "u1", target_plan |-> "pro", price |-> "price_business"],
      [user_id |-> "u1", target_plan |-> "starter", price |-> "price_other"],
      [user_id |-> "u1", target_plan |-> Null, price |-> "price_growth"],
      [user_id |-> Null, target_plan |-> "business", price |-> "price_growth"],
      [user_id |-> "u1", target_plan |-> Null, price |-> Null] }

WebhookPages(s) ==
    /\ inv[s].pc \in {"idle", "done"}
    /\ \E method \in Methods, sig \in Sigs :
         IF sig # "valid"
         THEN Serve(s, PagesRoute, method, sig,
                    handler_pages(method, sig, NoEvent, Null, "ok", "ok", "ok", profiles))
         ELSE \E e \in issued, price \in PriceIds \cup {Null}, o \in ClientRuns :
                 Serve(s, PagesRoute, method, sig,
                       handler_pages(method, sig, e, price, o[1], o[2], o[3], profiles))

WebhookUnnamed(s) ==
    /\ inv[s].pc \in {"idle", "done"}
    /\ \E method \in Methods, sig \in Sigs :
         IF method # "POST" \/ sig # "valid"
         THEN Serve(s, UnnamedRoute, method, sig,
                    handler_part000(method, sig, NoEvent, Null, Null, Null, "ok", profiles))
         ELSE \E e \in issued, p \in Payloads, updated \in ClientOutcomes :
                 Serve(s, UnnamedRoute, method, sig,
                       handler_part000(method, sig, e, p.user_id, p.target_plan,
                                       p.price, updated, profiles))

\* Requests of every method, to each of the three handlers, one at a time.
NextGate ==
    \/ Issue(EventsGate, MaxGate, FALSE)
    \/ Step(1, FALSE)
    \/ GET(1)
    \/ WebhookPages(1)
    \/ WebhookUnnamed(1)

SpecGate == Init /\ [][NextGate]_vars

\* ------------------------------------------------ the multi-secret handler
\* The bound of the secret-rotation specification's events.
MaxRotation == 2

MultiSecretRoute == "unnamed/part_005"

\* The values a webhook secret variable of the environment may hold, and the
\* secrets a delivery may have been signed with.
SecretValues == {Null, Empty, "whsec_1", "whsec_2"}

SigningKeys == {"whsec_1", "whsec_2", "whsec_3"}

EventsRotation ==
    { Event("checkout.session.completed", "b@x", Null, Null, "u1", Null, "s1", "c1", "starter", Null, Null),
      Event("checkout.session.completed", Null, Null, "b@x", "u1", Null, "s1", "c1", "starter", Null, Null),
      Event("customer.subscription.updated", Null, Null, Null, Null, Null, "s1", "c1", "growth", "past_due", "t1"),
      Event("customer.subscription.deleted", Null, Null, Null, Null, Null, "s1", "c1", "growth", "canceled", Null),
      Event("invoice.payment_failed", Null, Null, Null, Null, Null, "s1", "c1", Null, Null, Null),
      Event("invoice.paid", Null, Null, Null, Null, Null, "s1", "c1", Null, Null, Null) }

CandidateSecrets_CliFirst(primary, cli) == SelectSeq(<<cli, primary>>, Truthy)

\* [STRIPE_WEBHOOK_SECRET, STRIPE_CLI_WEBHOOK_SECRET].filter(Boolean)
CandidateSecrets(primary, cli) == SelectSeq(<<primary, cli>>, Truthy)

constructEvent_AcceptsAny(sig, secret) == TRUE

\* stripe.webhooks.constructEvent(body, sig, secret) returns the event when
\* the header was signed with secret and throws otherwise.
constructEvent(sig, secret) == sig = secret

\* for (const secret of secrets) { try { event = constructEvent(...); break }
\* catch (err) { lastErr = err } }
RECURSIVE TrySecrets(_, _, _)
TrySecrets(secrets, sig, calls) ==
    IF secrets = <<>> THEN [verified |-> FALSE, calls |-> calls]
    ELSE IF constructEvent(sig, Head(secrets))
    THEN [verified |-> TRUE, calls |-> Append(calls, <<"constructEvent", "ok">>)]
    ELSE TrySecrets(Tail(secrets), sig, Append(calls, <<"constructEvent", "error">>))

\* What a handler that writes the subscriptions table returns and leaves.
Settled(e, calls, status, subs) ==
    [ev |-> e, calls |-> calls, resp |-> status, subscriptions |-> subs]

\* unnamed/part_005 POST after verification: the switch.  fetched, sub are the
\* outcome and the answer of stripe.subscriptions.retrieve (a throw is caught
\* and logged), written the outcome of the subscriptions upsert or update
\* (an error is logged); every case ends with 200.
POST_part005_event(e, calls, fetched, sub, written, subs) ==
    LET email == Nullish(e.cd_email, Nullish(e.c_email, Null))
        fetches == Truthy(e.sub)
        retrieved == IF fetches
                     THEN Append(calls, <<"stripe.subscriptions.retrieve", fetched>>)
                     ELSE calls
        got == fetches /\ fetched = "ok"
        row == [email |-> email, stripe_customer_id |-> e.customer,
                stripe_subscription_id |-> e.sub,
                plan |-> Nullish(e.m_plan, "unknown"),
                status |-> IF got THEN Nullish(sub.status, "active") ELSE "active",
                current_period_end |-> IF got THEN "t1" ELSE Null]
        patch == CASE e.type = "customer.subscription.updated" ->
                        [status |-> Nullish(e.status, "active"),
                         current_period_end |-> e.period_end]
                   [] e.type = "customer.subscription.deleted" ->
                        [status |-> "canceled", current_period_end |-> e.period_end]
                   [] OTHER -> [status |-> "past_due"]
    IN CASE e.type = "checkout.session.completed" ->
              IF ~Truthy(email) THEN Settled(e, calls, 200, subs)
              ELSE Settled(e, Append(retrieved, <<"subscriptions.upsert", written>>), 200,
                           IF written = "ok" THEN upsertSubscriptionByEmail(subs, row)
                           ELSE subs)
         [] e.type \in {"customer.subscription.updated", "customer.subscription.deleted"}
              \/ (e.type = "invoice.payment_failed" /\ Truthy(e.sub)) ->
              Settled(e, Append(calls, <<"subscriptions.update", written>>), 200,
                      IF written = "ok" THEN patchSubscriptionBySubId(subs, e.sub, patch)
                      ELSE subs)
         [] OTHER -> Settled(e, calls, 200, subs)

\* unnamed/part_005 POST: the header, the candidate secrets in order, 400
\* when none verified, else the switch.
POST_part005(sig, primary, cli, e, fetched, sub, written, subs) ==
    LET tried == TrySecrets(CandidateSecrets(primary, cli), sig, <<>>)
    IN IF MissingSignature(sig) THEN Settled(NoEvent, <<>>, 400, subs)
       ELSE IF ~tried.verified THEN Settled(NoEvent, tried.calls, 400, subs)
       ELSE POST_part005_event(e, tried.calls, fetched, sub, written, subs)

\* The request ends before the switch: the event and the outcomes of the
\* calls of the switch are no input of it.
Rejects(sig, primary, cli) ==
    POST_part005(sig, primary, cli, NoEvent, "ok", [status |-> "active"], "ok", {}).resp = 400

\* The outcome and the answer (status) of stripe.subscriptions.retrieve and
\* the outcome of the subscriptions write of one request.
RetrieveRuns ==
    { <<"error", "active", "ok">>, <<"ok", "active", "ok">>, <<"ok", "unpaid", "ok">>,
      <<"ok", Null, "ok">>, <<"ok", "unpaid", "error">> }

\* A POST to the multi-secret handler, served to its end.
WebhookMultiSecret(s) ==
    /\ inv[s].pc \in {"idle", "done"}
    /\ \E primary, cli \in SecretValues, sig \in SigningKeys \cup {"missing"} :
         \E e \in IF Rejects(sig, primary, cli) THEN {NoEvent} ELSE issued,
            run \in IF Rejects(sig, primary, cli) THEN {<<"ok", "active", "ok">>}
                    ELSE RetrieveRuns :
            LET r == POST_part005(sig, primary, cli, e, run[1], [status |-> run[2]],
                                  run[3], subscriptions)
            IN /\ inv' = [inv EXCEPT ![s] =
                     Respond([Idle EXCEPT !.route = MultiSecretRoute, !.method = "POST",
                                !.sig = sig, !.ev = r.ev,
                                !.env = [STRIPE_WEBHOOK_SECRET |-> primary,
                                         STRIPE_CLI_WEBHOOK_SECRET |-> cli]],
                             r.calls, r.resp)]
               /\ subscriptions' = r.subscriptions
    /\ prev' = NoPrev
    /\ UNCHANGED <<issued, profiles, stripe_events, ledgerExists, checkoutVars, handbookVars>>

NextRotation == Issue(EventsRotation, MaxRotation, FALSE) \/ WebhookMultiSecret(1)

SpecRotation == Init /\ [][NextRotation]_vars

\* ------------------------------------------ the handler without normalizePlan
\* The bound of the plan-enumeration specification's events.
MaxPlans == 2

UnnormalizedRoute == "unnamed/part_004"

\* Events whose metadata carries plan strings in other spellings, an unknown
\* plan and no plan.
EventsPlans ==
    { Event("checkout.session.completed", "b@x", Null, Null, "u1", Null, "s1", "c1", p, Null, Null) :
        p \in {"STARTER", " Growth ", "gold", Null} }
    \cup { Event("customer.subscription.updated", Null, Null, Null, Null, Null, "s1", "c1", p, "active", "t1") :
             p \in {"business", " Growth ", "gold"} }
    \cup { Event("customer.subscription.deleted", Null, Null, Null, Null, Null, "s1", "c1", "growth", "canceled", Null),
            Event("invoice.payment_failed", Null, Null, Null, Null, Null, "s1", "c1", Null, Null, Null),
            Event("invoice.paid", Null, Null, Null, Null, Null, "s1", "c1", Null, Null, Null) }

\* String(raw).toLowerCase() on the raw plan strings of the model.
Lower(raw) ==
    CASE raw = " Growth " -> " growth "
      [] raw = "STARTER" -> "starter"
      [] OTHER -> raw

\* What a handler that writes both tables returns and leaves behind.
Finished(e, calls, status, subs, profs) ==
    [ev |-> e, calls |-> calls, resp |-> status, subscriptions |-> subs,
     profiles |-> profs]

\* The outcomes of the calls of one request to unnamed/part_004: at most one
\* throws, and the body of the GET may be unreadable.
FetchRuns ==
    { [find |-> f, write |-> w, profile |-> p] :
        f \in Outcomes, w \in {"ok", "error"}, p \in {"ok", "error"} }
      \ { r \in [find : Outcomes, write : {"ok", "error"}, profile : {"ok", "error"}] :
             Cardinality({ k \in {"find", "write", "profile"} : r[k] = "error" }) > 1 }

\* unnamed/part_004 POST after verification: the switch inside try; catch
\* logs the error and the handler answers 200 in every case.  who is the row
\* rows?.[0] of the GET.
POST_part004_event(e, run, who, subs, profs) ==
    LET verified == <<<<"constructEvent", "ok">>>>
        plan == Lower(OrElse(e.m_plan, "unknown"))
        email == IF e.type = "checkout.session.completed" THEN SessionEmail(e)
                 ELSE IF run.find = "ok" THEN who.email ELSE Null
        userId == IF e.type = "checkout.session.completed" THEN SessionUserId(e)
                  ELSE IF run.find = "ok" THEN who.userId ELSE Null
        paid == e.status = "active" \/ e.status = "trialing"
        nextPlan == IF e.type = "checkout.session.completed" THEN plan
                    ELSE IF e.type = "customer.subscription.updated" /\ paid THEN plan
                    ELSE "pending"
        row == [email |-> email, user_id |-> userId, stripe_customer_id |-> e.customer,
                stripe_subscription_id |-> e.sub, plan |-> plan, status |-> "active"]
        patch == CASE e.type = "customer.subscription.updated" ->
                        [stripe_customer_id |-> e.customer, plan |-> plan, status |-> e.status]
                   [] e.type = "invoice.payment_failed" -> [status |-> "past_due"]
                   [] OTHER -> [status |-> "canceled"]
        found == IF e.type = "checkout.session.completed" THEN verified
                 ELSE Append(verified, <<"subscriptions.get", run.find>>)
        written == Append(found, <<IF e.type = "checkout.session.completed"
                                   THEN "subscriptions.post" ELSE "subscriptions.patch",
                                   run.write>>)
        subs2 == IF e.type = "checkout.session.completed"
                 THEN upsertSubscriptionByEmail(subs, row)
                 ELSE patchSubscriptionBySubId(subs, e.sub, patch)
        calls == e.type = "checkout.session.completed" \/ Truthy(userId) \/ Truthy(email)
        set == IF calls THEN Append(written, <<"profiles.patch", run.profile>>) ELSE written
    IN IF \/ e.type \notin {"checkout.session.completed", "customer.subscription.updated",
                             "invoice.payment_failed", "customer.subscription.deleted"}
          \/ (e.type = "checkout.session.completed" /\ ~Truthy(email))
          \/ (e.type = "invoice.payment_failed" /\ ~Truthy(e.sub))
       THEN Finished(e, verified, 200, subs, profs)
       ELSE IF e.type # "checkout.session.completed" /\ run.find = "error"
       THEN Finished(e, found, 200, subs, profs)
       ELSE IF run.write = "error" THEN Finished(e, written, 200, subs, profs)
       ELSE IF calls /\ run.profile = "error" THEN Finished(e, set, 200, subs2, profs)
       ELSE Finished(e, set, 200, subs2,
                     IF Truthy(userId) THEN updateProfilePlanById(profs, userId, nextPlan)
                     ELSE IF Truthy(email) THEN updateProfilePlanByEmail(profs, email, nextPlan)
                     ELSE profs)

\* unnamed/part_004 POST: the header, constructEvent, then the switch.
POST_part004(sig, e, run, who, subs, profs) ==
    IF MissingSignature(sig) THEN Finished(NoEvent, <<>>, 400, subs, profs)
    ELSE IF SignatureRejected(sig)
    THEN Finished(NoEvent, <<<<"constructEvent", "error">>>>, 400, subs, profs)
    ELSE POST_part004_event(e, run, who, subs, profs)

\* A POST to unnamed/part_004, served to its end.
WebhookUnnormalized(s) ==
    /\ inv[s].pc \in {"idle", "done"}
    /\ \E sig \in Sigs :
         \E e \in IF sig = "valid" THEN issued ELSE {NoEvent},
            run \in IF sig = "valid" THEN FetchRuns
                    ELSE {[find |-> "ok", write |-> "ok", profile |-> "ok"]} :
           \E who \in findSubscriptionRowBySubId(subscriptions, e.sub) :
              LET r == POST_part004(sig, e, run, who, subscriptions, profiles)
              IN /\ inv' = [inv EXCEPT ![s] =
                       Respond([Idle EXCEPT !.route = UnnormalizedRoute, !.method = "POST",
                                  !.sig = sig, !.ev = r.ev], r.calls, r.resp)]
                 /\ subscriptions' = r.subscriptions
                 /\ profiles' = r.profiles
    /\ prev' = NoPrev
    /\ UNCHANGED <<issued, stripe_events, ledgerExists, checkoutVars, handbookVars>>

\* Events with plan strings of every spelling, handled by both handlers.
NextPlans ==
    \/ Issue(EventsPlans, MaxPlans, FALSE)
    \/ Step(1, FALSE)
    \/ WebhookUnnormalized(1)

SpecPlans == Init /\ [][NextPlans]_vars

\* The same events handled by the App Router handler alone.
NextNormalized == Issue(EventsPlans, MaxPlans, FALSE) \/ Step(1, FALSE)

SpecNormalized == Init /\ [][NextNormalized]_vars

\* ------------------------------- the Pages create-checkout-session handler
\* The bound of the customers created at the provider in one behaviour.
MaxCustomers == 3

\* The state of the webhook handlers.
webhookVars == <<issued, subscriptions, profiles, stripe_events, ledgerExists, inv, prev>>

\* customer.id of the n-th customer the provider creates.
CustomerIds == <<"cus_1", "cus_2", "cus_3", "cus_4">>

\* req.body of the requests: complete ones for two users, one without a
\* userId and one with a plan the handler does not sell.  successUrl and
\* cancelUrl are present in all of them.
CheckoutBodies ==
    { [userId |-> "u1", email |-> "a@x", plan |-> "pro"],
      [userId |-> "u1", email |-> "a@x", plan |-> "business"],
      [userId |-> "u2", email |-> "b@x", plan |-> "pro"],
      [userId |-> Null, email |-> "a@x", plan |-> "pro"],
      [userId |-> "u1", email |-> "a@x", plan |-> "starter"] }

\* The handler state of slot s: idle until a request arrives in it.
Request(s) == IF s \in DOMAIN checkout THEN checkout[s] ELSE IdleCheckout

\* The handler of slot s moves to state slot.
Put(s, slot) == (s :> slot) @@ checkout

InFlight == { s \in Slots : Request(s).pc \notin {"idle", "done"} }

\* res.status(...).json(...)
Answer(slot, calls, status) == [slot EXCEPT !.pc = "done", !.calls = calls, !.resp = status]

\* A request arrives, with the environment configured: the method, the
\* required fields and the plan are checked before the first await.
CheckoutBegin(s) ==
    /\ Request(s).pc \in {"idle", "done"}
    /\ Cardinality(customers) + Cardinality(InFlight) < MaxCustomers
    /\ \E method \in {"POST", "GET"}, body \in CheckoutBodies :
         LET arrived == [IdleCheckout EXCEPT !.userId = body.userId,
                            !.email = body.email, !.plan = body.plan]
         IN checkout' = Put(s,
               IF method # "POST" THEN Answer(arrived, <<>>, 405)
               ELSE IF ~Truthy(body.userId) \/ ~Truthy(body.email) \/ ~Truthy(body.plan)
               THEN Answer(arrived, <<>>, 400)
               ELSE IF body.plan # "pro" /\ body.plan # "business"
               THEN Answer(arrived, <<>>, 400)
               ELSE [arrived EXCEPT !.pc = "select"])
    /\ UNCHANGED <<customers, stripe_customer_of, webhookVars, handbookVars>>

\* from("stripe_customers").select("stripe_customer_id").eq("user_id", userId)
\* .maybeSingle(); if (existingErr) return 500
CheckoutSelect(s) ==
    /\ Request(s).pc = "select"
    /\ \E outcome \in {"ok", "error"} :
         LET calls == Logged(Request(s), "stripe_customers.select", outcome)
             existing == stripe_customer_of[Request(s).userId]
         IN checkout' = Put(s,
               IF outcome = "error" THEN Answer(Request(s), calls, 500)
               ELSE [Request(s) EXCEPT !.calls = calls, !.stripeCustomerId = existing,
                        !.pc = IF ~Truthy(existing) THEN "create" ELSE "session"])
    /\ UNCHANGED <<customers, stripe_customer_of, webhookVars, handbookVars>>

\* const customer = await stripe.customers.create({email, metadata: {user_id}});
\* stripeCustomerId = customer.id; a throw is caught and answered 500.
CheckoutCreate(s) ==
    /\ Request(s).pc = "create"
    /\ \/ LET id == CustomerIds[Cardinality(customers) + 1]
          IN /\ customers' = customers \cup
                    { [id |-> id, email |-> Request(s).email,
                       user_id |-> Request(s).userId] }
             /\ checkout' = Put(s,
                    [Request(s) EXCEPT !.stripeCustomerId = id, !.pc = "upsert",
                       !.calls = Logged(Request(s), "stripe.customers.create", "ok")])
       \/ /\ checkout' = Put(s,
                Answer(Request(s), Logged(Request(s), "stripe.customers.create", "error"), 500))
          /\ UNCHANGED customers
    /\ UNCHANGED <<stripe_customer_of, webhookVars, handbookVars>>

\* from("stripe_customers").upsert({user_id, stripe_customer_id},
\* {onConflict: "user_id"}); if (upsertErr) return 500
CheckoutUpsert(s) ==
    /\ Request(s).pc = "upsert"
    /\ \E outcome \in {"ok", "error"} :
         LET calls == Logged(Request(s), "stripe_customers.upsert", outcome)
         IN IF outcome = "ok"
            THEN /\ stripe_customer_of' =
                       [stripe_customer_of EXCEPT ![Request(s).userId] =
                           Request(s).stripeCustomerId]
                 /\ checkout' = Put(s,
                       [Request(s) EXCEPT !.calls = calls, !.pc = "session"])
            ELSE /\ checkout' = Put(s, Answer(Request(s), calls, 500))
                 /\ UNCHANGED stripe_customer_of
    /\ UNCHANGED <<customers, webhookVars, handbookVars>>

\* const session = await stripe.checkout.sessions.create({customer:
\* stripeCustomerId, ...}); return 200; a throw is caught and answered 500.
CheckoutSession(s) ==
    /\ Request(s).pc = "session"
    /\ \E outcome \in {"ok", "error"} :
         checkout' = Put(s,
            Answer(Request(s), Logged(Request(s), "stripe.checkout.sessions.create", outcome),
                   IF outcome = "ok" THEN 200 ELSE 500))
    /\ UNCHANGED <<customers, stripe_customer_of, webhookVars, handbookVars>>

\* One awaited call of the request in slot s; requests run concurrently, one
\* per slot.
handler_checkout(s) ==
    \/ CheckoutBegin(s)
    \/ CheckoutSelect(s)
    \/ CheckoutCreate(s)
    \/ CheckoutUpsert(s)
    \/ CheckoutSession(s)

NextCheckout == \E s \in Slots : handler_checkout(s)

SpecCheckout == Init /\ [][NextCheckout]_vars

\* ------------------------------------------- the handbook generate handlers
\* The bound of the handbooks rows.
MaxHandbooks == 2

\* The three generate handlers of the repository.
HandbooksApiRoute == "app/api/handbooks/generate/route.ts"
HandbooksRoute == "app/handbooks/generate/route.ts"
HandbooksUnnamedRoute == "unnamed/part_001"

\* Handbook ids; each stands for a UUID.
HandbookIds == {"h1", "h2"}

\* user_id of a handbooks row: a user, or none.
Owners == {"u1", Null}

\* handbookId of a payload: absent, not a UUID, or a UUID.
PayloadIds == {Null, "not-a-uuid"} \cup HandbookIds

isUuid(v) == v \in HandbookIds

\* A handbooks row.  template_id and updated_at are left out of the rows.
Handbook(id, user_id, content_md) ==
    [id |-> id, user_id |-> user_id, content_md |-> content_md]

\* What the text generator may answer: the HTTP outcome, output_text, and the
\* text of output[].content[] joined.
GeneratorResults ==
    { [ok |-> TRUE, output_text |-> " # Handbook A ", output |-> "# Handbook A"],
      [ok |-> TRUE, output_text |-> "  ", output |-> "  "],
      [ok |-> TRUE, output_text |-> Null, output |-> "# From output"],
      [ok |-> FALSE, output_text |-> Null, output |-> Null] }

Trim_Keeps(raw) == IF raw = Null THEN Empty ELSE raw

\* String.prototype.trim on the texts of the model.
Trim(raw) ==
    CASE raw = Null -> Empty
      [] raw = "  " -> Empty
      [] raw = " # Handbook A " -> "# Handbook A"
      [] OTHER -> raw

\* The client application inserts a handbooks row; the handlers only read
\* and update rows.
CreateHandbook ==
    /\ Cardinality(handbooks) < MaxHandbooks
    /\ \E id \in HandbookIds, u \in Owners :
         /\ ~\E r \in handbooks : r.id = id
         /\ handbooks' = handbooks \cup {Handbook(id, u, Null)}
    /\ UNCHANGED <<generated, webhookVars, checkoutVars>>

\* from("handbooks").select(...).eq("id", handbookId).maybeSingle(): data
HandbookRows(rows, handbookId) == { r \in rows : r.id = handbookId }

\* from("handbooks").update({content_md, ...}).eq("id", handbookId)
UpdateHandbook(rows, handbookId, content) ==
    { IF r.id = handbookId THEN [r EXCEPT !.content_md = content] ELSE r : r \in rows }

\* A response, the calls made for it, and the handbooks table left.
Replied(calls, status, content, rows) ==
    [calls |-> calls, resp |-> status, content_md |-> content, handbooks |-> rows]

\* app/api/handbooks/generate/route.ts POST, with the environment configured.
POST_handbooks_api(handbookId, userId, selected, ai, updated, rows) ==
    LET looked == <<<<"handbooks.select", selected>>>>
        asked == Append(looked, <<"generator", IF ai.ok THEN "ok" ELSE "error">>)
        saved == Append(asked, <<"handbooks.update", updated>>)
        hb == HandbookRows(rows, handbookId)
        content == OrElse(Trim(OrElse(ai.output_text, Empty)),
                          Trim(OrElse(ai.output, Empty)))
    IN IF ~Truthy(handbookId) THEN Replied(<<>>, 400, Null, rows)
       ELSE IF ~isUuid(handbookId) THEN Replied(<<>>, 400, Null, rows)
       ELSE IF selected = "error" THEN Replied(looked, 500, Null, rows)
       ELSE IF hb = {} THEN Replied(looked, 404, Null, rows)
       ELSE IF \E r \in hb : Truthy(userId) /\ Truthy(r.user_id) /\ r.user_id # userId
       THEN Replied(looked, 403, Null, rows)
       ELSE IF ~ai.ok THEN Replied(asked, 500, Null, rows)
       ELSE IF ~Truthy(content) THEN Replied(asked, 500, Null, rows)
       ELSE IF updated = "error" THEN Replied(saved, 500, Null, rows)
       ELSE Replied(saved, 200, content, UpdateHandbook(rows, handbookId, content))

\* app/handbooks/generate/route.ts POST, with the environment configured:
\* the handbook is read only when the body carries a userId.
POST_handbooks(handbookId, userId, selected, ai, updated, rows) ==
    LET looked == IF Truthy(userId) THEN <<<<"handbooks.select", selected>>>> ELSE <<>>
        asked == Append(looked, <<"generator", IF ai.ok THEN "ok" ELSE "error">>)
        saved == Append(asked, <<"handbooks.update", updated>>)
        hb == HandbookRows(rows, handbookId)
        content_md == Trim(OrElse(ai.output_text, Empty))
    IN IF ~Truthy(handbookId) THEN Replied(<<>>, 400, Null, rows)
       ELSE IF Truthy(userId) /\ selected = "error" THEN Replied(looked, 500, Null, rows)
       ELSE IF Truthy(userId) /\ hb = {} THEN Replied(looked, 404, Null, rows)
       ELSE IF Truthy(userId) /\ \E r \in hb : r.user_id # userId
       THEN Replied(looked, 403, Null, rows)
       ELSE IF ~ai.ok THEN Replied(asked, 500, Null, rows)
       ELSE IF ~Truthy(content_md) THEN Replied(asked, 500, Null, rows)
       ELSE IF updated = "error" THEN Replied(saved, 500, Null, rows)
       ELSE Replied(saved, 200, content_md, UpdateHandbook(rows, handbookId, content_md))

\* unnamed/part_001 POST, with the environment configured: no userId is read.
POST_part001(handbookId, userId, selected, ai, updated, rows) ==
    LET looked == <<<<"handbooks.select", selected>>>>
        asked == Append(looked, <<"generator", IF ai.ok THEN "ok" ELSE "error">>)
        saved == Append(asked, <<"handbooks.update", updated>>)
        hb == HandbookRows(rows, handbookId)
        content_md == Trim(OrElse(ai.output_text, Empty))
    IN IF ~Truthy(handbookId) THEN Replied(<<>>, 400, Null, rows)
       ELSE IF ~isUuid(handbookId) THEN Replied(<<>>, 400, Null, rows)
       ELSE IF selected = "error" THEN Replied(looked, 400, Null, rows)
       ELSE IF hb = {} THEN Replied(looked, 404, Null, rows)
       ELSE IF ~ai.ok THEN Replied(asked, 500, Null, rows)
       ELSE IF ~Truthy(content_md) THEN Replied(asked, 500, Null, rows)
       ELSE IF updated = "error" THEN Replied(saved, 400, Null, rows)
       ELSE Replied(saved, 200, content_md, UpdateHandbook(rows, handbookId, content_md))

\* The outcomes of the select and the update of one request: at most one
\* fails.
StoreRuns == { <<"ok", "ok">>, <<"error", "ok">>, <<"ok", "error">> }

\* A request reaches a generate handler and is served to its end.
Generate(route, handbookId, userId, r) ==
    /\ generated' = << [route |-> route, handbookId |-> handbookId, userId |-> userId,
                        calls |-> r.calls, resp |-> r.resp, content_md |-> r.content_md] >>
    /\ handbooks' = r.handbooks
    /\ UNCHANGED <<webhookVars, checkoutVars>>

GenerateApi ==
    \E handbookId \in PayloadIds, userId \in UserIds \cup {Null},
       o \in StoreRuns, ai \in GeneratorResults :
        Generate(HandbooksApiRoute, handbookId, userId,
                 POST_handbooks_api(handbookId, userId, o[1], ai, o[2], handbooks))

GenerateApp ==
    \E handbookId \in PayloadIds, userId \in UserIds \cup {Null},
       o \in StoreRuns, ai \in GeneratorResults :
        Generate(HandbooksRoute, handbookId, userId,
                 POST_handbooks(handbookId, userId, o[1], ai, o[2], handbooks))

GenerateUnnamed ==
    \E handbookId \in PayloadIds, userId \in UserIds \cup {Null},
       o \in StoreRuns, ai \in GeneratorResults :
        Generate(HandbooksUnnamedRoute, handbookId, userId,
                 POST_part001(handbookId, userId, o[1], ai, o[2], handbooks))

NextHandbooks == CreateHandbook \/ GenerateApi \/ GenerateApp \/ GenerateUnnamed

SpecHandbooks == Init /\ [][NextHandbooks]_vars

\* ---------------------------------------------------------------- properties
Made(slot, op, outcome) == <<op, outcome>> \in Range(slot.calls)

EventOf(s) == inv[s].ev

WriteOps == {"subscriptions.post", "subscriptions.patch", "profiles.patch"}

\* The invocation went past the de-duplication and reached markProcessed.
Processed(s) ==
    /\ inv[s].pc = "done"
    /\ inv[s].resp = 200
    /\ \E c \in Range(inv[s].calls) : c[1] = "stripe_events.post"

\* No call of steps 3-5 failed.
AllOk(s) == AllOkCalls(inv[s].calls)

\* The profiles rows a key (userId, else email) selects.
Targets(userId, email) ==
    { u \in UserIds : IF Truthy(userId) THEN u = userId
                      ELSE Truthy(email) /\ ProfileEmail(u) = email }

\* The status an event carries or forces.
ClaimStatus(s) ==
    LET e == EventOf(s)
    IN CASE e.type = "customer.subscription.updated" -> e.status
         [] e.type = "invoice.paid" -> inv[s].status
         [] e.type = "invoice.payment_failed" -> "past_due"
         [] e.type = "customer.subscription.deleted" -> "canceled"
         [] OTHER -> "active"

\* C2: a delivery whose signature constructEvent rejects is answered 400 at
\* once, and the invocation makes no call to the store, the ledger or the
\* provider.
C2_SignatureGate ==
    \A s \in Slots :
        inv[s].sig = "invalid" =>
            /\ inv[s].pc = "done"
            /\ inv[s].resp = 400
            /\ \A c \in Range(inv[s].calls) : c[1] = "constructEvent"

C2_Witness ==
    \E s \in Slots :
        /\ inv[s].sig = "invalid"
        /\ inv[s].pc = "done"
        /\ subscriptions # {}
        /\ ledgerExists

\* C3: when the status an event carries or forces is not active or trialing,
\* the profile the invocation has written holds "pending", whatever the plan
\* metadata.
C3_StatusGated ==
    \A s \in Slots :
        ( /\ inv[s].pc \in {"mark", "done"}
          /\ Made(inv[s], "profiles.patch", "ok")
          /\ ClaimStatus(s) \notin {"active", "trialing"} )
        => \A u \in Targets(inv[s].userId, inv[s].email) : profiles[u] = "pending"

C3_Witness ==
    \E s \in Slots :
        /\ inv[s].pc = "done"
        /\ Made(inv[s], "profiles.patch", "ok")
        /\ EventOf(s).type = "customer.subscription.updated"
        /\ EventOf(s).status = "incomplete"
        /\ EventOf(s).m_plan = "growth"
        /\ Targets(inv[s].userId, inv[s].email) = {"u1"}
        /\ profiles["u1"] = "pending"

\* C4: after an invocation has processed, with every call succeeding, a
\* subscription.updated or invoice.paid whose status is active or trialing and
\* whose plan is a paid tier, the profile of the user the subscriptions row of
\* that subscription names holds that tier.
C4_ActiveEntitlement ==
    \A s \in Slots :
        ( /\ Processed(s)
          /\ AllOk(s)
          /\ EventOf(s).type \in {"customer.subscription.updated", "invoice.paid"}
          /\ ClaimStatus(s) \in {"active", "trialing"} )
        => LET e == EventOf(s)
               tier == IF e.type = "invoice.paid" THEN inv[s].plan ELSE e.m_plan
           IN tier \in PAID_PLANS =>
                \A r \in subscriptions :
                    r.stripe_subscription_id = e.sub =>
                        \A u \in Targets(r.user_id, r.email) : profiles[u] = tier

C4_Witness ==
    \E s \in Slots :
        /\ Processed(s)
        /\ AllOk(s)
        /\ EventOf(s).type = "customer.subscription.updated"
        /\ EventOf(s).status = "trialing"
        /\ EventOf(s).m_plan = "growth"
        /\ \E r \in subscriptions : r.stripe_subscription_id = EventOf(s).sub
        /\ profiles["u1"] = "growth"

\* The event of the invocation was in the ledger when the delivery arrived
\* (deliveries are handled one at a time, so only this invocation can have
\* added it since).
ArrivedMarked(s) ==
    /\ inv[s].sig = "valid"
    /\ inv[s].pc # "idle"
    /\ inv[s].ev \in stripe_events
    /\ ~Made(inv[s], "stripe_events.post", "ok")

\* C6 as stated: an event already in the ledger on arrival is answered 200
\* with no write to subscriptions or profiles and no provider fetch.
C6_DedupWhenMarked ==
    \A s \in Slots :
        ArrivedMarked(s) =>
            /\ \A c \in Range(inv[s].calls) : c[1] \notin ApplyOps
            /\ inv[s].pc = "done" => inv[s].resp = 200

\* C6, amended: an event already in the ledger on arrival, whose ledger
\* lookup succeeds, is answered 200 and the lookup is the only call made.
C6_DedupWhenLookupSucceeds ==
    \A s \in Slots :
        (ArrivedMarked(s) /\ Made(inv[s], "stripe_events.get", "ok")) =>
            /\ inv[s].pc = "done"
            /\ inv[s].resp = 200
            /\ inv[s].calls = <<<<"constructEvent", "ok">>, <<"stripe_events.get", "ok">>>>

\* A de-duplicated checkout whose row another event has since moved on.
C6_Witness ==
    \E s \in Slots :
        /\ ArrivedMarked(s)
        /\ Made(inv[s], "stripe_events.get", "ok")
        /\ inv[s].pc = "done"
        /\ EventOf(s).type = "checkout.session.completed"
        /\ \E r \in subscriptions :
              r.stripe_subscription_id = EventOf(s).sub /\ r.status = "past_due"

\* C7 as stated: an invocation in which a call of steps 3-5 failed answers 5xx.
C7_FailureSignalled ==
    \A s \in Slots :
        ( /\ inv[s].pc = "done"
          /\ \E c \in Range(inv[s].calls) : c[1] \in ApplyOps /\ c[2] # "ok" )
        => inv[s].resp >= 500

\* What does hold: a call of steps 3-5 that throws is answered 500.
C7_ThrowSignalled ==
    \A s \in Slots :
        ( /\ inv[s].pc = "done"
          /\ \E c \in Range(inv[s].calls) : c[1] \in ApplyOps /\ c[2] = "error" )
        => inv[s].resp = 500

\* The invocation is the next delivery of an event whose previous delivery was
\* answered 200 with no failed call.  If the previous delivery was
\* de-duplicated the ledger answers this one too; an invoice.paid that has
\* fetched its subscription again got what the previous delivery got.
HandledTwice(s) ==
    /\ inv[s].sig = "valid"
    /\ prev.ev = inv[s].ev
    /\ prev.ending \in {"applied", "deduped"}
    /\ prev.ending = "deduped" =>
          ~(Made(inv[s], "stripe_events.get", "error") \/ Made(inv[s], "stripe_events.get", "unreadable"))
    /\ Made(inv[s], "stripe.subscriptions.retrieve", "ok") =>
          (inv[s].plan = prev.plan /\ inv[s].status = prev.status)

\* C1: handling an event a second time, right after it was handled, leaves
\* the subscriptions rows and the profiles plans as the first handling left
\* them at every step and however the second handling ends, with a ledger
\* (the second delivery is de-duplicated) and without (the second delivery
\* repeats the writes).
C1_Idempotent ==
    \A s \in Slots :
        HandledTwice(s) =>
            /\ subscriptions = prev.subscriptions
            /\ profiles = prev.profiles

\* Without a ledger: both deliveries wrote the row and the profile.
C1_Witness ==
    \E s \in Slots :
        /\ HandledTwice(s)
        /\ Processed(s)
        /\ ~ledgerExists
        /\ Made(inv[s], "subscriptions.patch", "ok")
        /\ Made(inv[s], "profiles.patch", "ok")
        /\ prev.wrote
        /\ profiles["u1"] = "growth"

\* With a ledger: the second delivery was de-duplicated.
C1_WitnessLedger ==
    \E s \in Slots :
        /\ HandledTwice(s)
        /\ inv[s].pc = "done"
        /\ inv[s].resp = 200
        /\ ~Processed(s)
        /\ prev.wrote

\* The next delivery of an event whose last delivery failed between the two
\* writes, the event not being in the ledger then.
RedeliveredAfterPartialFailure(s) ==
    /\ inv[s].pc = "done"
    /\ inv[s].resp = 200
    /\ AllOk(s)
    /\ prev.ev = inv[s].ev
    /\ prev.ending = "partial"
    /\ ~prev.marked

\* C8: an invocation whose subscriptions write succeeds and whose profiles
\* write fails answers 500 without marking the event processed, and the next
\* delivery of that event, when its calls succeed, makes both writes again.
C8_PartialFailure ==
    \A s \in Slots :
        /\ (inv[s].pc = "done" /\ PartialFailure(inv[s].calls)) =>
              /\ inv[s].resp = 500
              /\ \A c \in Range(inv[s].calls) : c[1] # "stripe_events.post"
        /\ RedeliveredAfterPartialFailure(s) =>
              /\ \/ Made(inv[s], "subscriptions.post", "ok")
                 \/ Made(inv[s], "subscriptions.patch", "ok")
              /\ Made(inv[s], "profiles.patch", "ok")

C8_Witness ==
    \E s \in Slots :
        /\ RedeliveredAfterPartialFailure(s)
        /\ ledgerExists
        /\ Made(inv[s], "stripe_events.get", "ok")
        /\ EventOf(s).type = "checkout.session.completed"
        /\ profiles["u1"] = "starter"

\* The invocation applied an event of a subscription right after a newer
\* event of that subscription was applied, no call failing in either.
StaleAfterNewer(s) ==
    /\ Processed(s)
    /\ AllOk(s)
    /\ Made(inv[s], "profiles.patch", "ok")
    /\ prev.ending = "applied"
    /\ prev.wrote
    /\ prev.ev.created > EventOf(s).created
    /\ prev.ev.sub = EventOf(s).sub
    /\ {prev.ev.type, EventOf(s).type}
          \subseteq {"customer.subscription.updated", "customer.subscription.deleted"}

\* C5: an older event of a subscription applied after a newer one leaves the
\* profiles plans as the newer event set them.
C5_Freshness ==
    \A s \in Slots : StaleAfterNewer(s) => profiles = prev.profiles

\* What does hold: the older event overwrites, the plan is the one the older
\* event carries.
C5_LastWriterWins ==
    \A s \in Slots :
        StaleAfterNewer(s) =>
            \A u \in Targets(inv[s].userId, inv[s].email) :
                profiles[u] = IF isPaidStatus(ClaimStatus(s)) THEN normalizePlan(EventOf(s).m_plan)
                              ELSE "pending"

\* The event takes its identity from the subscriptions row of its
\* subscription, and there is such a row naming a user or an email.
ResolvableFromRow(s) ==
    /\ EventOf(s).type \in {"customer.subscription.updated", "customer.subscription.deleted",
                             "invoice.payment_failed", "invoice.paid"}
    /\ \E r \in subscriptions :
          /\ r.stripe_subscription_id = EventOf(s).sub
          /\ Truthy(r.user_id) \/ Truthy(r.email)

\* C9, the part that makes it fail: an event with resolvable identity that
\* is acknowledged with 200 past the de-duplication (and so is not
\* redelivered) has had its subscriptions write and its profiles write.
C9_AckedIsApplied ==
    \A s \in Slots :
        (Processed(s) /\ ResolvableFromRow(s)) =>
            /\ Made(inv[s], "subscriptions.patch", "ok")
            /\ Made(inv[s], "profiles.patch", "ok")

\* What does hold: it has, unless the read of the row came back unreadable.
C9_AppliedWhenReadable ==
    \A s \in Slots :
        (Processed(s) /\ ResolvableFromRow(s) /\ ~Made(inv[s], "subscriptions.get", "unreadable")) =>
            /\ Made(inv[s], "subscriptions.patch", "ok")
            /\ Made(inv[s], "profiles.patch", "ok")

\* The userId a checkout session resolves: client_reference_id, else
\* metadata.userId.
ClaimedUserId(e) ==
    IF Truthy(e.client_ref) THEN e.client_ref
    ELSE IF Truthy(e.m_userId) THEN e.m_userId
    ELSE Null

\* C10: a setUserPlan that succeeds changes no profile but the one keyed by
\* the resolved userId, or with no userId the one keyed by the resolved
\* email, and sets that one to the plan; on checkout.session.completed the
\* resolved userId is client_reference_id, else metadata.userId.
C10_IdentityFallback ==
    [][\A s \in Slots :
          (inv[s].pc = "setplan" /\ inv'[s].pc = "mark") =>
              /\ \A u \in UserIds :
                    profiles'[u] = IF u \in Targets(inv[s].userId, inv[s].email)
                                   THEN NextPlan(EventOf(s), inv[s])
                                   ELSE profiles[u]
              /\ EventOf(s).type = "checkout.session.completed" =>
                    inv[s].userId = ClaimedUserId(EventOf(s))]_vars

\* Both resolved, and they name different profiles: only u1's is written.
C10_Witness ==
    \E s \in Slots :
        /\ inv[s].pc = "mark"
        /\ Made(inv[s], "profiles.patch", "ok")
        /\ EventOf(s).client_ref = "u1"
        /\ EventOf(s).m_userId = "u2"
        /\ inv[s].email = "b@x"
        /\ profiles = [u \in UserIds |-> IF u = "u1" THEN "starter" ELSE "pending"]

\* No userId resolved (client_reference_id absent, metadata.userId empty):
\* the profile with the email is written.
C10_WitnessEmail ==
    \E s \in Slots :
        /\ inv[s].pc = "mark"
        /\ Made(inv[s], "profiles.patch", "ok")
        /\ EventOf(s).type = "checkout.session.completed"
        /\ inv[s].userId = Null
        /\ inv[s].email = "a@x"
        /\ profiles = [u \in UserIds |-> IF u = "u1" THEN "business" ELSE "pending"]

\* C11: after a checkout.session.completed with client_reference_id u1 and a
\* paid tier in metadata.plan has been applied with no failed call, a
\* subscriptions row holds the session's subscription id with that tier and
\* status "active", and the profile of u1 holds that tier.
C11_CheckoutCompletion ==
    \A s \in Slots :
        ( /\ Processed(s)
          /\ AllOk(s)
          /\ EventOf(s).type = "checkout.session.completed"
          /\ EventOf(s).client_ref = "u1"
          /\ EventOf(s).m_plan \in PAID_PLANS )
        => /\ \E r \in subscriptions :
                 /\ r.stripe_subscription_id = EventOf(s).sub
                 /\ r.user_id = "u1"
                 /\ r.plan = EventOf(s).m_plan
                 /\ r.status = "active"
           /\ profiles["u1"] = EventOf(s).m_plan

\* The session of u1 with no email at all: the row sits under the synthetic
\* email.
C11_Witness ==
    \E s \in Slots :
        /\ Processed(s)
        /\ AllOk(s)
        /\ EventOf(s).type = "checkout.session.completed"
        /\ EventOf(s).client_ref = "u1"
        /\ EventOf(s).cd_email = Null
        /\ \E r \in subscriptions : r.email = SyntheticEmail("u1") /\ r.status = "active"
        /\ profiles["u1"] = "starter"

\* C12: after an invoice.payment_failed of a subscription has been applied
\* with no failed call, the subscriptions row of that subscription has status
\* "past_due", its plan untouched, and the profile of the user the row names
\* holds "pending".
C12_PaymentFailure ==
    \A s \in Slots :
        ( /\ Processed(s)
          /\ AllOk(s)
          /\ EventOf(s).type = "invoice.payment_failed"
          /\ EventOf(s).sub # Null )
        => \A r \in subscriptions :
               r.stripe_subscription_id = EventOf(s).sub =>
                   /\ r.status = "past_due"
                   /\ \A u \in Targets(r.user_id, r.email) : profiles[u] = "pending"

\* The row checkout left with a paid plan, now past_due, its user locked.
C12_Witness ==
    \E s \in Slots :
        /\ Processed(s)
        /\ AllOk(s)
        /\ EventOf(s).type = "invoice.payment_failed"
        /\ Made(inv[s], "subscriptions.patch", "ok")
        /\ Made(inv[s], "profiles.patch", "ok")
        /\ \E r \in subscriptions :
              /\ r.stripe_subscription_id = EventOf(s).sub
              /\ r.user_id = "u1"
              /\ r.plan = "starter"
              /\ r.status = "past_due"
        /\ \E c \in stripe_events :
              c.type = "checkout.session.completed" /\ c.client_ref = "u1" /\ c.m_plan = "starter"
        /\ profiles["u1"] = "pending"

\* A customer.subscription.updated with status active and a paid tier, for a
\* subscription other than the canceled one the subscriptions table holds
\* for the same customer, that row naming user u1, has been applied with no
\* failed call.
Resubscribed(s) ==
    /\ Processed(s)
    /\ AllOk(s)
    /\ EventOf(s).type = "customer.subscription.updated"
    /\ EventOf(s).status = "active"
    /\ EventOf(s).m_plan \in PAID_PLANS

\* C13: after customer.subscription.deleted has locked user u1, a
\* customer.subscription.updated with status active for a new subscription
\* of the same customer leaves the profile of u1 on the tier of the event.
C13_Resubscription ==
    \A s \in Slots :
        ( /\ Resubscribed(s)
          /\ \E r \in subscriptions :
                /\ r.user_id = "u1"
                /\ r.stripe_customer_id = EventOf(s).customer
                /\ r.stripe_subscription_id # EventOf(s).sub
                /\ r.status = "canceled" )
        => profiles["u1"] = EventOf(s).m_plan

\* What does hold: the tier is restored once the checkout session of the
\* new subscription has put its id on the row.
C13_ResubscriptionAfterCheckout ==
    \A s \in Slots :
        ( /\ Resubscribed(s)
          /\ \E r \in subscriptions :
                r.user_id = "u1" /\ r.stripe_subscription_id = EventOf(s).sub )
        => profiles["u1"] = EventOf(s).m_plan

\* The invocation applied, with no failed call, a customer.subscription.updated
\* or invoice.paid with status active or trialing and a paid tier, right
\* after an event that locked the same subscription was applied: the row was
\* left canceled or past_due and the profile of its user "pending".
ReopenedAfterLock(s) ==
    /\ Processed(s)
    /\ AllOk(s)
    /\ EventOf(s).type \in {"customer.subscription.updated", "invoice.paid"}
    /\ ClaimStatus(s) \in {"active", "trialing"}
    /\ inv[s].plan \in PAID_PLANS
    /\ Reopens(prev.ev, EventOf(s))
    /\ prev.ending = "applied"
    /\ \E r \in prev.subscriptions :
          /\ r.stripe_subscription_id = EventOf(s).sub
          /\ r.status \in {"canceled", "past_due"}
          /\ \A u \in Targets(r.user_id, r.email) : prev.profiles[u] = "pending"

\* C14: a subscription whose row is canceled or past_due and whose user is
\* on "pending" is reopened by the next customer.subscription.updated or
\* invoice.paid with status active or trialing and a paid tier: the row takes
\* that status and tier, the profile of its user that tier.
C14_NonTerminalLock ==
    \A s \in Slots :
        ReopenedAfterLock(s) =>
            \A r \in subscriptions :
                r.stripe_subscription_id = EventOf(s).sub =>
                    /\ r.status = ClaimStatus(s)
                    /\ r.plan = inv[s].plan
                    /\ \A u \in Targets(r.user_id, r.email) : profiles[u] = inv[s].plan

\* A canceled subscription reopened by customer.subscription.updated.
C14_Witness ==
    \E s \in Slots :
        /\ ReopenedAfterLock(s)
        /\ prev.ev.type = "customer.subscription.deleted"
        /\ prev.wrote
        /\ prev.profiles["u1"] = "pending"
        /\ EventOf(s).type = "customer.subscription.updated"
        /\ \E r \in subscriptions : r.user_id = "u1" /\ r.status = "trialing"
        /\ profiles["u1"] = "growth"

\* A past_due subscription reopened by invoice.paid.
C14_WitnessPaid ==
    \E s \in Slots :
        /\ ReopenedAfterLock(s)
        /\ prev.ev.type = "invoice.payment_failed"
        /\ prev.wrote
        /\ \E r \in prev.subscriptions : r.user_id = "u1" /\ r.status = "past_due"
        /\ EventOf(s).type = "invoice.paid"
        /\ \E r \in subscriptions : r.user_id = "u1" /\ r.status = "active"
        /\ profiles["u1"] = "business"

\* No identity can be resolved for the event: a checkout session with no
\* user id and no email in any of their places; an event of a subscription
\* with no subscription id or with no subscriptions row holding it; an event
\* of a type the switch ignores.
Unresolvable(e) ==
    CASE e.type = "checkout.session.completed" ->
            /\ ~Truthy(e.client_ref) /\ ~Truthy(e.m_userId)
            /\ ~Truthy(Nullish(e.cd_email, Nullish(e.c_email, e.m_email)))
      [] e.type \in {"customer.subscription.updated", "customer.subscription.deleted",
                      "invoice.payment_failed", "invoice.paid"} ->
            \/ e.sub = Null
            \/ ~\E r \in subscriptions : r.stripe_subscription_id = e.sub
      [] OTHER -> TRUE

\* C15: a verified event with no resolvable identity is answered 200 unless a
\* call throws, and no step of its invocation changes a subscriptions row or
\* a profiles row.
C15_UnresolvableDropped ==
    /\ [](\A s \in Slots :
            ( /\ inv[s].pc = "done"
              /\ inv[s].sig = "valid"
              /\ Unresolvable(EventOf(s))
              /\ \A c \in Range(inv[s].calls) : c[2] # "error" )
            => inv[s].resp = 200)
    /\ [][\A s \in Slots :
            ( /\ inv[s].sig = "valid"
              /\ inv[s].pc \notin {"idle", "done"}
              /\ Unresolvable(EventOf(s)) )
            => (subscriptions' = subscriptions /\ profiles' = profiles)]_vars

\* A customer.subscription.updated of a subscription no row holds, while the
\* table holds a row of another subscription: patched against the table,
\* nothing changed, 200.
C15_Witness ==
    \E s \in Slots :
        /\ Processed(s)
        /\ Unresolvable(EventOf(s))
        /\ EventOf(s).type = "customer.subscription.updated"
        /\ Made(inv[s], "subscriptions.patch", "ok")
        /\ ~Made(inv[s], "profiles.patch", "ok")
        /\ subscriptions # {}

\* A checkout session with neither user id nor email.
C15_WitnessCheckout ==
    \E s \in Slots :
        /\ Processed(s)
        /\ Unresolvable(EventOf(s))
        /\ EventOf(s).type = "checkout.session.completed"
        /\ \A c \in Range(inv[s].calls) : c[1] \notin ApplyOps

\* C16: no two subscriptions rows hold the same non-null
\* stripe_subscription_id.
C16_SubscriptionIdUnique ==
    \A r1, r2 \in subscriptions :
        (r1.stripe_subscription_id # Null
            /\ r1.stripe_subscription_id = r2.stripe_subscription_id) => r1 = r2

\* Two rows of the same user, one under the synthetic email, each with its
\* own subscription id.
C16_Witness ==
    /\ \E r \in subscriptions :
          r.email = "b@x" /\ r.stripe_subscription_id = "s1" /\ r.user_id = "u1"
    /\ \E r \in subscriptions :
          r.email = SyntheticEmail("u1") /\ r.stripe_subscription_id = "s2" /\ r.user_id = "u1"
    /\ \E s \in Slots : Processed(s) /\ Made(inv[s], "subscriptions.post", "ok")

\* Two invocations that overlapped have both applied, with no failed call,
\* different events of one subscription.
RacedTwoEvents(s, t) ==
    /\ s < t
    /\ Processed(s) /\ AllOk(s)
    /\ Processed(t) /\ AllOk(t)
    /\ EventOf(s) # EventOf(t)
    /\ EventOf(s).sub # Null
    /\ EventOf(s).sub = EventOf(t).sub
    /\ Made(inv[s], "profiles.patch", "ok")
    /\ Made(inv[t], "profiles.patch", "ok")

\* C17: after two overlapping invocations have applied two different events
\* of a subscription, the profile of the subscription's user is on a paid
\* tier only if the row's status is active or trialing, and holds the plan
\* one of the two events sets.
C17_ConcurrentConsistent ==
    \A s, t \in Slots :
        RacedTwoEvents(s, t) =>
            \A r \in subscriptions :
                r.stripe_subscription_id = EventOf(s).sub =>
                    \A u \in Targets(r.user_id, r.email) :
                        /\ profiles[u] \in PAID_PLANS => isPaidStatus(r.status)
                        /\ profiles[u] \in {NextPlan(EventOf(s), inv[s]), NextPlan(EventOf(t), inv[t])}

\* What does hold: each table ends on what one of the two events writes,
\* but not both on the same event's.
C17_EachTableOneOfTwo ==
    \A s, t \in Slots :
        RacedTwoEvents(s, t) =>
            \A r \in subscriptions :
                r.stripe_subscription_id = EventOf(s).sub =>
                    /\ r.status \in {inv[s].status, inv[t].status}
                    /\ \A u \in Targets(r.user_id, r.email) :
                          profiles[u] \in {NextPlan(EventOf(s), inv[s]), NextPlan(EventOf(t), inv[t])}

\* Two overlapping invocations handle deliveries of the same event, and no
\* invocation handles another event beside them; those that have fetched the
\* subscription from the provider got the same answer.
SameEventTwice(s, t) ==
    /\ s # t
    /\ inv[s].sig = "valid"
    /\ inv[t].sig = "valid"
    /\ \A u, v \in Slots :
          (inv[u].sig = "valid" /\ inv[v].sig = "valid") =>
              /\ EventOf(u) = EventOf(v)
              /\ ( Made(inv[u], "stripe.subscriptions.retrieve", "ok")
                     /\ Made(inv[v], "stripe.subscriptions.retrieve", "ok") )
                  => (inv[u].plan = inv[v].plan /\ inv[u].status = inv[v].status)

\* The tables hold what the event of the invocation writes.
HoldsOutcome(s) ==
    LET e == EventOf(s)
    IN IF e.type = "checkout.session.completed"
       THEN /\ \E r \in subscriptions : Merge(r, CheckoutRow(e, inv[s])) = r
            /\ inv[s].plan # "pending" =>
                  \A u \in Targets(inv[s].userId, inv[s].email) : profiles[u] = inv[s].plan
       ELSE /\ \A r \in subscriptions :
                  r.stripe_subscription_id = e.sub => Merge(r, PatchOf(e, inv[s])) = r
            /\ \A u \in Targets(inv[s].userId, inv[s].email) :
                  profiles[u] = NextPlan(e, inv[s])

\* C18: when two overlapping invocations handle the same event, both answer
\* 200 unless a call throws; once one of them has applied the event with no
\* failed call the tables hold what the event writes, and no step of the
\* other changes a subscriptions row or a profiles row.
C18_ConcurrentRedelivery ==
    /\ [](\A s, t \in Slots :
            SameEventTwice(s, t) =>
                /\ ( /\ inv[s].pc = "done"
                      /\ \A c \in Range(inv[s].calls) : c[2] # "error" ) => inv[s].resp = 200
                /\ ( /\ Processed(s)
                      /\ AllOk(s)
                      /\ ( Made(inv[s], "subscriptions.get", "ok")
                            \/ Made(inv[s], "subscriptions.post", "ok") ) ) => HoldsOutcome(s))
    /\ [][\A s, t \in Slots :
            (SameEventTwice(s, t) /\ Processed(s) /\ AllOk(s))
                => (subscriptions' = subscriptions /\ profiles' = profiles)]_vars

\* Both invocations passed the ledger lookup before either marked the event,
\* and both applied it.
C18_Witness ==
    \E s, t \in Slots :
        /\ SameEventTwice(s, t)
        /\ ledgerExists
        /\ Processed(s) /\ AllOk(s) /\ Processed(t) /\ AllOk(t)
        /\ Made(inv[s], "stripe_events.get", "ok") /\ Made(inv[t], "stripe_events.get", "ok")
        /\ Made(inv[s], "profiles.patch", "ok") /\ Made(inv[t], "profiles.patch", "ok")
        /\ EventOf(s).type = "customer.subscription.deleted"
        /\ \E r \in subscriptions : r.user_id = "u1" /\ r.status = "canceled"
        /\ profiles["u1"] = "pending"


\* C19: a POST with no stripe-signature header is answered 400 by each of
\* the handlers; no event is constructed, the invocation makes no call (no
\* verification, no store or provider access), and the step that serves it
\* leaves the tables as they were.
C19_MissingSignature ==
    /\ [](\A s \in Slots :
            (inv[s].method = "POST" /\ inv[s].sig = "missing") =>
                /\ inv[s].pc = "done"
                /\ inv[s].resp = 400
                /\ inv[s].calls = <<>>
                /\ inv[s].ev = NoEvent)
    /\ [][\A s \in Slots :
            (inv'[s].method = "POST" /\ inv'[s].sig = "missing") =>
                /\ subscriptions' = subscriptions
                /\ profiles' = profiles
                /\ stripe_events' = stripe_events]_vars

C19_Witness ==
    \E s \in Slots :
        /\ inv[s].method = "POST"
        /\ inv[s].sig = "missing"
        /\ inv[s].route = AppRoute
        /\ inv[s].resp = 400
        /\ subscriptions # {}

C19_WitnessPages ==
    \E s \in Slots :
        /\ inv[s].method = "POST"
        /\ inv[s].sig = "missing"
        /\ inv[s].route \in {PagesRoute, UnnamedRoute}
        /\ inv[s].resp = 400
        /\ \E u \in UserIds : profiles[u] = "pro"

\* C20: a request whose method is not POST is answered 405 and makes no
\* call: no event is constructed and nothing is read from or written to the
\* store.
C20_MethodGate ==
    \A s \in Slots :
        (inv[s].pc = "done" /\ inv[s].method \notin {Null, "POST"}) =>
            /\ inv[s].resp = 405
            /\ inv[s].calls = <<>>
            /\ inv[s].ev = NoEvent

\* The gate holds where a handler has one: the App Router route (GET) and
\* the unnamed handler (req.method !== "POST").
C20_MethodGateWhereChecked ==
    \A s \in Slots :
        (inv[s].pc = "done" /\ inv[s].method \notin {Null, "POST"}
            /\ inv[s].route # PagesRoute) =>
            /\ inv[s].resp = 405
            /\ inv[s].calls = <<>>
            /\ inv[s].ev = NoEvent

\* The Pages handler served a verified GET and wrote the profile.
C20_PagesProcessesGet ==
    \E s \in Slots :
        /\ inv[s].route = PagesRoute
        /\ inv[s].method = "GET"
        /\ inv[s].resp = 200
        /\ Made(inv[s], "profiles.update", "ok")


\* The constructEvent calls of an invocation, in the order made.
IsVerification(c) == c[1] = "constructEvent"

Verifications(slot) == SelectSeq(slot.calls, IsVerification)

\* The configured secrets of the slot's environment, primary first.
Configured(slot) ==
    (IF Truthy(slot.env.STRIPE_WEBHOOK_SECRET) THEN <<slot.env.STRIPE_WEBHOOK_SECRET>> ELSE <<>>)
        \o (IF Truthy(slot.env.STRIPE_CLI_WEBHOOK_SECRET)
            THEN <<slot.env.STRIPE_CLI_WEBHOOK_SECRET>> ELSE <<>>)

\* The position of the first configured secret the header was signed with,
\* 0 when there is none.
FirstMatch(slot) ==
    LET c == Configured(slot)
        hits == { i \in 1..Len(c) : c[i] = slot.sig }
    IN IF hits = {} THEN 0 ELSE CHOOSE i \in hits : \A j \in hits : i <= j

\* C21: the multi-secret handler tries the configured secrets in the order
\* STRIPE_WEBHOOK_SECRET, STRIPE_CLI_WEBHOOK_SECRET and stops at the first one
\* that verifies, which accepts the event; when none verifies, and when none
\* is configured, it answers 400 having made no other call, and the tables
\* are left as they were.
C21_SecretRotation ==
    /\ [](\A s \in Slots :
            (inv[s].route = MultiSecretRoute /\ inv[s].pc = "done"
                /\ inv[s].sig # "missing") =>
               LET tries == Verifications(inv[s])
                   m == FirstMatch(inv[s])
               IN IF m > 0
                  THEN /\ Len(tries) = m
                       /\ \A i \in 1..(m - 1) : tries[i][2] = "error"
                       /\ tries[m][2] = "ok"
                       /\ inv[s].ev # NoEvent
                       /\ inv[s].resp = 200
                  ELSE /\ Len(tries) = Len(Configured(inv[s]))
                       /\ \A i \in 1..Len(tries) : tries[i][2] = "error"
                       /\ inv[s].calls = tries
                       /\ inv[s].ev = NoEvent
                       /\ inv[s].resp = 400)
    /\ [][\A s \in Slots :
            (inv'[s].route = MultiSecretRoute /\ inv'[s].sig # "missing"
                /\ FirstMatch(inv'[s]) = 0) =>
               /\ subscriptions' = subscriptions
               /\ profiles' = profiles
               /\ stripe_events' = stripe_events]_vars

\* The second secret verified after the first was tried and failed.
C21_Witness ==
    \E s \in Slots :
        /\ inv[s].route = MultiSecretRoute
        /\ FirstMatch(inv[s]) = 2
        /\ Made(inv[s], "subscriptions.upsert", "ok")
        /\ subscriptions # {}

\* No secret is configured, and two are configured and neither verifies.
C21_WitnessNone ==
    \E s \in Slots :
        /\ inv[s].route = MultiSecretRoute
        /\ inv[s].sig \in SigningKeys
        /\ inv[s].resp = 400
        /\ Len(Configured(inv[s])) = 0
        /\ subscriptions # {}

C21_WitnessBothFail ==
    \E s \in Slots :
        /\ inv[s].route = MultiSecretRoute
        /\ inv[s].resp = 400
        /\ Len(Verifications(inv[s])) = 2
        /\ subscriptions # {}


\* The tier a raw metadata plan string names when case and surrounding
\* whitespace are ignored; "pending" when it names none.
TierNamed(raw) ==
    CASE raw \in {"starter", "STARTER"} -> "starter"
      [] raw \in {"growth", " Growth "} -> "growth"
      [] raw = "business" -> "business"
      [] OTHER -> "pending"

\* C22: every plan held by a profiles row or a subscriptions row is one of
\* pending, starter, growth, business, and a row written from an event holds
\* the tier the event's plan string names, "pending" when it names none.
C22_PlanEnumeration ==
    /\ \A u \in UserIds : profiles[u] \in Plans
    /\ \A r \in subscriptions : r.plan \in Plans
    /\ \A s \in Slots :
          ( /\ inv[s].pc = "done"
            /\ inv[s].ev.type \in {"checkout.session.completed", "customer.subscription.updated"}
            /\ \E c \in Range(inv[s].calls) :
                  c[1] \in {"subscriptions.post", "subscriptions.patch"} /\ c[2] = "ok" ) =>
              \A r \in subscriptions :
                  r.stripe_subscription_id = inv[s].ev.sub => r.plan = TierNamed(inv[s].ev.m_plan)

\* An unknown plan string, and one in another spelling, were written through
\* normalizePlan.
C22_WitnessNormalized ==
    /\ \E s \in Slots :
          /\ inv[s].route = AppRoute
          /\ inv[s].ev.m_plan = "gold"
          /\ Processed(s) /\ AllOk(s)
          /\ Made(inv[s], "subscriptions.patch", "ok")
    /\ \E r \in subscriptions : r.plan = "pending" /\ r.status = "active"

\* unnamed/part_004 stored a plan outside the enumeration.
C22_UnnormalizedWritten ==
    \E s \in Slots :
        /\ inv[s].route = UnnormalizedRoute
        /\ inv[s].resp = 200
        /\ \E u \in UserIds : profiles[u] \in {"unknown", "gold", " growth "}
        /\ \E r \in subscriptions : r.plan \in {"unknown", "gold", " growth "}


\* The invocation handled a subscription event of the given type to its end
\* with no failed call, and a subscriptions row holds the event's id.
Reconciled(s, type) ==
    /\ inv[s].route = AppRoute
    /\ inv[s].ev.type = type
    /\ Processed(s)
    /\ AllOk(s)
    /\ \A c \in Range(inv[s].calls) : c[2] # "unreadable"
    /\ \E r \in subscriptions : r.stripe_subscription_id = inv[s].ev.sub

\* What reconciling a subscription event leaves: the rows of its id hold the
\* event's plan and status, and the owner's profile the tier when the status
\* is active or trialing and "pending" otherwise.
ReconciledOutcome(s) ==
    LET e == inv[s].ev
    IN \A r \in subscriptions :
          r.stripe_subscription_id = e.sub =>
              /\ r.plan = TierNamed(e.m_plan)
              /\ r.status = e.status
              /\ \A u \in Targets(r.user_id, r.email) :
                    profiles[u] = IF e.status \in {"active", "trialing"}
                                  THEN TierNamed(e.m_plan) ELSE "pending"

\* C23: a verified customer.subscription.created event is reconciled like
\* customer.subscription.updated: the row of its subscription id takes the
\* event's plan and status and the owner's profile the gated tier.
C23_CreatedReconciled ==
    \A s \in Slots : Reconciled(s, "customer.subscription.created") => ReconciledOutcome(s)

\* The same outcome does hold for customer.subscription.updated.
C23_UpdatedReconciled ==
    \A s \in Slots : Reconciled(s, "customer.subscription.updated") => ReconciledOutcome(s)

\* customer.subscription.created falls to the default case: the step that
\* enters the switch goes straight to markProcessed and no step of the
\* invocation changes a table.
C23_CreatedIgnored ==
    /\ [](\A s \in Slots :
            (inv[s].ev.type = "customer.subscription.created" /\ inv[s].pc = "done") =>
                /\ inv[s].resp = 200
                /\ \A c \in Range(inv[s].calls) : c[1] \notin WriteOps)
    /\ [][\A s \in Slots :
            (inv[s].ev.type = "customer.subscription.created" /\ inv'[s] # inv[s]
                /\ inv'[s].ev = inv[s].ev) =>
                (subscriptions' = subscriptions /\ profiles' = profiles)]_vars

C23_WitnessUpdated ==
    \E s \in Slots :
        /\ Reconciled(s, "customer.subscription.updated")
        /\ profiles["u1"] = "growth"


\* The invocation handled a customer.subscription.updated whose subscription
\* id is on no subscriptions row and whose metadata names a user.
UpdatedWithoutRow(s) ==
    /\ inv[s].route = AppRoute
    /\ inv[s].ev.type = "customer.subscription.updated"
    /\ Processed(s)
    /\ AllOk(s)
    /\ Made(inv[s], "subscriptions.get", "ok")
    /\ ~\E r \in subscriptions : r.stripe_subscription_id = inv[s].ev.sub
    /\ Targets(inv[s].ev.m_userId, inv[s].ev.m_email) # {}

\* C24: when no subscriptions row holds the id of a subscription event, the
\* user named by the subscription's own metadata (userId, else email) gets
\* the profile plan the event gates.
C24_MetadataFallback ==
    \A s \in Slots :
        UpdatedWithoutRow(s) =>
            \A u \in Targets(inv[s].ev.m_userId, inv[s].ev.m_email) :
                profiles[u] = IF inv[s].ev.status \in {"active", "trialing"}
                              THEN TierNamed(inv[s].ev.m_plan) ELSE "pending"

\* Without a row the invocation resolves nobody and makes no profiles call.
C24_NoRowNoProfileWrite ==
    \A s \in Slots :
        UpdatedWithoutRow(s) =>
            /\ inv[s].userId = Null
            /\ inv[s].email = Null
            /\ \A c \in Range(inv[s].calls) : c[1] # "profiles.patch"

C24_WitnessNoRow ==
    \E s \in Slots :
        /\ UpdatedWithoutRow(s)
        /\ inv[s].ev.m_userId = "u1"
        /\ inv[s].ev.status = "active"
        /\ profiles["u1"] = "pending"


\* The step is a successful subscriptions write of the invocation in slot s.
WritesSubscriptions(s) ==
    /\ inv[s].pc \in {"upsert", "patch"}
    /\ Len(inv'[s].calls) = Len(inv[s].calls) + 1
    /\ inv'[s].calls[Len(inv'[s].calls)][1] \in {"subscriptions.post", "subscriptions.patch"}
    /\ inv'[s].calls[Len(inv'[s].calls)][2] = "ok"

\* C25: a subscriptions write of an event that carries a subscription id is
\* keyed by that id: it leaves every row of another subscription id as it
\* was; only the write of an event without a subscription id is keyed by
\* email, and it leaves every row of another email as it was.
C25_KeyedBySubId ==
    [][\A s \in Slots :
         WritesSubscriptions(s) =>
            LET e == inv[s].ev
            IN IF Truthy(e.sub)
               THEN \A r \in subscriptions :
                       r.stripe_subscription_id # e.sub => r \in subscriptions'
               ELSE \A r \in subscriptions :
                       r.email # CheckoutRow(e, inv[s]).email => r \in subscriptions']_vars

\* The writes of the subscription and invoice cases are keyed by the id.
C25_PatchKeyedBySubId ==
    [][\A s \in Slots :
         (WritesSubscriptions(s) /\ inv[s].pc = "patch") =>
            \A r \in subscriptions :
                r.stripe_subscription_id # inv[s].ev.sub => r \in subscriptions']_vars

\* The write of checkout.session.completed is keyed by email, with or
\* without a subscription id.
C25_CheckoutKeyedByEmail ==
    [][\A s \in Slots :
         (WritesSubscriptions(s) /\ inv[s].pc = "upsert") =>
            /\ \A r \in subscriptions :
                  r.email # CheckoutRow(inv[s].ev, inv[s]).email => r \in subscriptions'
            /\ \E r \in subscriptions' :
                  Merge(r, CheckoutRow(inv[s].ev, inv[s])) = r]_vars

\* A checkout with a subscription id replaced the row of another id.
C25_WitnessSuperseded ==
    \E s \in Slots :
        /\ inv[s].ev.type = "checkout.session.completed"
        /\ inv[s].ev.sub = "s2"
        /\ Made(inv[s], "subscriptions.post", "ok")
        /\ \E e \in issued : e.type = "checkout.session.completed" /\ e.sub = "s1"
                                 /\ e \in stripe_events
        /\ ~\E r \in subscriptions : r.stripe_subscription_id = "s1"


\* The status a forced-status event writes.
ForcedStatus(e) ==
    IF e.type = "customer.subscription.deleted" THEN "canceled" ELSE "past_due"

ForcedTypes == {"customer.subscription.deleted", "invoice.payment_failed"}

\* C26: customer.subscription.deleted sets the status of the rows of its
\* subscription id to "canceled" and invoice.payment_failed sets it to
\* "past_due"; no step of the invocation changes anything else of the
\* subscriptions table: plan, customer id, email and user id of those rows,
\* and every other row, stay as they were.
C26_ForcedStatusOnly ==
    /\ [](\A s \in Slots :
            ( /\ inv[s].route = AppRoute
              /\ inv[s].ev.type \in ForcedTypes
              /\ Made(inv[s], "subscriptions.patch", "ok") ) =>
                \A r \in subscriptions :
                    r.stripe_subscription_id = inv[s].ev.sub =>
                        r.status = ForcedStatus(inv[s].ev))
    /\ [][\A s \in Slots :
            ( /\ inv[s].ev.type \in ForcedTypes
              /\ inv[s].pc \notin {"idle", "done"}
              /\ inv'[s] # inv[s] ) =>
                \/ subscriptions' = subscriptions
                \/ /\ WritesSubscriptions(s)
                   /\ subscriptions' =
                        { IF r.stripe_subscription_id = inv[s].ev.sub
                          THEN [r EXCEPT !.status = ForcedStatus(inv[s].ev)]
                          ELSE r : r \in subscriptions }]_vars

\* A canceled row that kept the plan and the identity the checkout gave it.
C26_Witness ==
    \E s \in Slots :
        /\ inv[s].ev.type = "customer.subscription.deleted"
        /\ Processed(s) /\ AllOk(s)
        /\ \E r \in subscriptions :
              /\ r.stripe_subscription_id = inv[s].ev.sub
              /\ r.status = "canceled"
              /\ r.plan = "starter"
              /\ r.user_id = "u1"
              /\ r.email = "b@x"
              /\ r.stripe_customer_id = "c1"

C26_WitnessPastDue ==
    \E s \in Slots :
        /\ inv[s].ev.type = "invoice.payment_failed"
        /\ Processed(s) /\ AllOk(s)
        /\ \E r \in subscriptions :
              /\ r.stripe_subscription_id = inv[s].ev.sub
              /\ r.status = "past_due"
              /\ r.plan = "starter"
              /\ r.user_id = "u1"


\* The event types the switch has a case for.
ReconciledTypes ==
    {"checkout.session.completed", "customer.subscription.updated",
     "invoice.payment_failed", "invoice.paid", "customer.subscription.deleted"}

\* The invocation handles a verified event of a type the switch has no case
\* for.
Irrelevant(slot) ==
    /\ slot.route = AppRoute
    /\ slot.sig = "valid"
    /\ slot.ev.type \notin ReconciledTypes

\* C27: a verified event of a type the handler does not reconcile is
\* answered 200, the invocation calls nothing but the ledger, and none of its
\* steps changes the subscriptions or the profiles table.
C27_IrrelevantAcknowledged ==
    /\ [](\A s \in Slots :
            Irrelevant(inv[s]) =>
                /\ inv[s].pc = "done" => inv[s].resp = 200
                /\ \A c \in Range(inv[s].calls) :
                      c[1] \in {"constructEvent", "stripe_events.get", "stripe_events.post"})
    /\ [][\A s \in Slots :
            (Irrelevant(inv'[s]) /\ inv'[s] # inv[s]) =>
                (subscriptions' = subscriptions /\ profiles' = profiles)]_vars

\* An irrelevant event went through the default case to markProcessed while
\* the tables held a paid subscription.
C27_Witness ==
    \E s \in Slots :
        /\ Irrelevant(inv[s])
        /\ Processed(s)
        /\ \E r \in subscriptions : r.status = "active"
        /\ profiles["u1"] = "starter"


\* The profile plan an event determines: from its plan metadata and status,
\* or for invoice.paid from the subscription fetched (its normalized plan and
\* its status are the locals of the case); no table is read.
PlanOfEvent(e, slot) ==
    CASE e.type = "checkout.session.completed" -> TierNamed(e.m_plan)
      [] e.type = "customer.subscription.updated" ->
            IF e.status \in {"active", "trialing"} THEN TierNamed(e.m_plan) ELSE "pending"
      [] e.type = "invoice.paid" ->
            IF slot.status \in {"active", "trialing"} THEN slot.plan ELSE "pending"
      [] OTHER -> "pending"

\* The step is a successful profiles write of the invocation in slot s.
WritesProfile(s) ==
    /\ inv[s].pc = "setplan"
    /\ Len(inv'[s].calls) = Len(inv[s].calls) + 1
    /\ inv'[s].calls[Len(inv'[s].calls)] = <<"profiles.patch", "ok">>

\* C28: the plan a profiles write stores is the one the event determines
\* (with the fetched subscription for invoice.paid), on the rows the identity
\* join selects, whatever plan and status the profiles and subscriptions rows
\* held before; every other profile keeps its plan.
C28_SelfContained ==
    [][\A s \in Slots :
         WritesProfile(s) =>
            \A u \in UserIds :
                profiles'[u] = IF u \in Targets(inv[s].userId, inv[s].email)
                               THEN PlanOfEvent(inv[s].ev, inv[s])
                               ELSE profiles[u]]_vars

\* An event locked a profile that held a paid tier, and an invoice.paid wrote
\* the fetched tier over the one the checkout had stored.
C28_Witness ==
    \E s \in Slots :
        /\ inv[s].ev.type = "invoice.paid"
        /\ Processed(s) /\ AllOk(s)
        /\ Made(inv[s], "profiles.patch", "ok")
        /\ profiles["u1"] = "business"
        /\ \E e \in stripe_events :
              e.type = "checkout.session.completed" /\ e.m_plan = "starter"

C28_WitnessLocked ==
    \E s \in Slots :
        /\ inv[s].ev.type = "customer.subscription.updated"
        /\ inv[s].ev.status = "past_due"
        /\ Processed(s) /\ AllOk(s)
        /\ Made(inv[s], "profiles.patch", "ok")
        /\ profiles["u1"] = "pending"
        /\ \E r \in subscriptions : r.user_id = "u1" /\ r.plan = "growth"


LedgerOps == {"stripe_events.get", "stripe_events.post"}

\* A call other than a ledger call threw.
NonLedgerFailure(slot) ==
    \E c \in Range(slot.calls) : c[1] \notin LedgerOps /\ c[2] = "error"

\* C29: when the ledger is missing or its read or write fails, the event is
\* not taken for processed and is handled by its case; a failed mark changes
\* nothing; and the response is 500 exactly when a call other than a ledger
\* call threw, 200 otherwise, as with a working ledger.
C29_OptionalLedger ==
    \A s \in Slots :
        (inv[s].route = AppRoute /\ inv[s].sig = "valid" /\ inv[s].pc = "done") =>
            /\ inv[s].resp = IF NonLedgerFailure(inv[s]) THEN 500 ELSE 200
            /\ ( /\ ~Made(inv[s], "stripe_events.get", "ok")
                  /\ Dispatch(inv[s].ev).pc # "mark" ) =>
                     \E c \in Range(inv[s].calls) :
                        c[1] \notin LedgerOps \cup {"constructEvent"}
            /\ ( /\ ~Made(inv[s], "stripe_events.get", "ok")
                  /\ ~NonLedgerFailure(inv[s]) ) =>
                     \E c \in Range(inv[s].calls) : c[1] = "stripe_events.post"
            /\ Made(inv[s], "stripe_events.post", "error") =>
                  (inv[s].resp = 200 /\ (~ledgerExists => stripe_events = {}))

\* Without the stripe_events table both ledger calls failed and the event
\* was applied and acknowledged.
C29_Witness ==
    \E s \in Slots :
        /\ ~ledgerExists
        /\ Made(inv[s], "stripe_events.get", "error")
        /\ Made(inv[s], "stripe_events.post", "error")
        /\ Made(inv[s], "subscriptions.post", "ok")
        /\ Made(inv[s], "profiles.patch", "ok")
        /\ inv[s].resp = 200
        /\ profiles["u1"] = "starter"


SubscriptionWrites == {"subscriptions.post", "subscriptions.patch"}

\* C30: an invocation issues its profiles write only after its subscriptions
\* write has succeeded: in the calls it made, a profiles write comes after a
\* successful subscriptions write and after no failed one, and a step changes
\* a profile only in an invocation whose subscriptions write succeeded.
C30_WriteOrdering ==
    /\ [](\A s \in Slots :
            inv[s].route = AppRoute =>
               \A i \in 1..Len(inv[s].calls) :
                  inv[s].calls[i][1] = "profiles.patch" =>
                     /\ \E j \in 1..(i - 1) :
                           inv[s].calls[j][1] \in SubscriptionWrites
                              /\ inv[s].calls[j][2] = "ok"
                     /\ \A j \in 1..Len(inv[s].calls) :
                           ~(inv[s].calls[j][1] \in SubscriptionWrites
                               /\ inv[s].calls[j][2] = "error"))
    /\ [][profiles' # profiles =>
            \E s \in Slots :
                /\ inv'[s] # inv[s]
                /\ \E c \in Range(inv[s].calls) : c[1] \in SubscriptionWrites /\ c[2] = "ok"
                /\ \A c \in Range(inv'[s].calls) :
                      ~(c[1] \in SubscriptionWrites /\ c[2] = "error")]_vars

\* The subscriptions write of a cancellation failed: 500, and the profile
\* keeps the tier it had.
C30_Witness ==
    \E s \in Slots :
        /\ inv[s].ev.type = "customer.subscription.deleted"
        /\ Made(inv[s], "subscriptions.patch", "error")
        /\ inv[s].resp = 500
        /\ profiles["u1"] = "starter"
        /\ \E r \in subscriptions : r.user_id = "u1" /\ r.status = "active"

\* Both writes of a checkout were made, in this order.
C30_WitnessBoth ==
    \E s \in Slots :
        /\ inv[s].ev.type = "checkout.session.completed"
        /\ Len(inv[s].calls) >= 4
        /\ inv[s].calls[3] = <<"subscriptions.post", "ok">>
        /\ inv[s].calls[4] = <<"profiles.patch", "ok">>



\* C31: an invocation posts its event to the stripe_events ledger only after
\* every call of the event's case returned without throwing, each store write
\* among them included; an invocation that answered 500 made no ledger post;
\* and the ledger grows only by the event of an invocation that posts it at
\* that step, after calls that did not throw, and answers 200.
C31_LedgerSoundness ==
    /\ [](\A s \in Slots :
            inv[s].route = AppRoute =>
               /\ \A i \in 1..Len(inv[s].calls) :
                     inv[s].calls[i][1] = "stripe_events.post" =>
                        \A j \in 1..(i - 1) :
                           inv[s].calls[j][1] \notin LedgerOps =>
                              inv[s].calls[j][2] # "error"
               /\ inv[s].resp = 500 =>
                     /\ ~\E c \in Range(inv[s].calls) : c[1] = "stripe_events.post"
                     /\ NonLedgerFailure(inv[s]))
    /\ [][stripe_events' # stripe_events =>
            \E s \in Slots :
                /\ inv'[s].calls = Append(inv[s].calls, <<"stripe_events.post", "ok">>)
                /\ stripe_events' = stripe_events \cup {inv[s].ev}
                /\ ~NonLedgerFailure(inv[s])
                /\ \A c \in Range(inv[s].calls) : c[1] \in WriteOps => c[2] = "ok"
                /\ inv'[s].resp = 200]_vars

\* A checkout made both of its writes and was then marked processed.
C31_Witness ==
    \E s \in Slots :
        /\ inv[s].ev.type = "checkout.session.completed"
        /\ Len(inv[s].calls) = 5
        /\ inv[s].calls[3] = <<"subscriptions.post", "ok">>
        /\ inv[s].calls[4] = <<"profiles.patch", "ok">>
        /\ inv[s].calls[5] = <<"stripe_events.post", "ok">>
        /\ inv[s].ev \in stripe_events

\* The profiles write threw after the subscriptions write: 500, and the event
\* is not in the ledger.
C31_WitnessFailed ==
    \E s \in Slots :
        /\ ledgerExists
        /\ Made(inv[s], "subscriptions.post", "ok")
        /\ Made(inv[s], "profiles.patch", "error")
        /\ inv[s].resp = 500
        /\ inv[s].ev \notin stripe_events



\* The invocation in slot s handles an invoice.paid event.
InvoicePaid(s) ==
    /\ inv[s].route = AppRoute
    /\ inv[s].sig = "valid"
    /\ inv[s].ev.type = "invoice.paid"

\* C32: for an invoice.paid event with a subscription id, the locals plan and
\* status are normalizePlan of the fetched subscription's metadata plan and
\* its status; the subscriptions write sets exactly these two columns, to
\* these values, on the rows of that id; the profiles write stores that plan
\* when that status is paid and "pending" otherwise.  When the fetch throws
\* the invocation answers 500 having made no store call, and an invoice
\* without a subscription id is answered 200 with no store call; in both the
\* tables are unchanged.
C32_InvoicePaidProviderView ==
    /\ [](\A s \in Slots :
            (InvoicePaid(s) /\ inv[s].pc = "done") =>
               /\ Made(inv[s], "stripe.subscriptions.retrieve", "error") =>
                     /\ inv[s].resp = 500
                     /\ \A c \in Range(inv[s].calls) :
                           c[1] \in {"constructEvent", "stripe_events.get",
                                     "stripe.subscriptions.retrieve"}
               /\ inv[s].ev.sub = Null =>
                     /\ inv[s].resp = 200
                     /\ \A c \in Range(inv[s].calls) : c[1] \notin ApplyOps)
    /\ [][\A s \in Slots :
            (InvoicePaid(s) /\ inv'[s] # inv[s] /\ inv[s].pc # "done") =>
               /\ (inv[s].pc = "retrieve" /\ inv'[s].pc = "find") =>
                     \E r \in RetrieveResults :
                        /\ inv'[s].plan = normalizePlan(r.plan)
                        /\ inv'[s].status = r.status
               /\ inv[s].pc \in {"find", "patch", "setplan"} =>
                     /\ inv'[s].plan = inv[s].plan
                     /\ inv'[s].status = inv[s].status
               /\ (inv[s].pc = "patch" /\ inv'[s].pc = "setplan") =>
                     subscriptions' =
                        { IF r.stripe_subscription_id = inv[s].ev.sub
                          THEN [r EXCEPT !.plan = inv[s].plan, !.status = inv[s].status]
                          ELSE r : r \in subscriptions }
               /\ (inv[s].pc = "setplan" /\ inv'[s].pc = "mark") =>
                     profiles' = setUserPlan(profiles, inv[s].userId, inv[s].email,
                                    IF inv[s].status \in {"active", "trialing"}
                                    THEN inv[s].plan ELSE "pending")
               /\ ( \/ inv[s].ev.sub = Null
                    \/ inv[s].pc \in {"dedupe", "retrieve", "find", "mark"}
                    \/ inv'[s].resp = 500 ) =>
                     (subscriptions' = subscriptions /\ profiles' = profiles)]_vars

\* The stored row said starter and active and the invoice names no plan; the
\* provider answered no plan and unpaid, and that is what was written.
C32_Witness ==
    \E s \in Slots :
        /\ InvoicePaid(s)
        /\ inv[s].resp = 200
        /\ Made(inv[s], "stripe.subscriptions.retrieve", "ok")
        /\ Made(inv[s], "profiles.patch", "ok")
        /\ inv[s].status = "unpaid"
        /\ \E e \in issued : e.type = "checkout.session.completed" /\ e.m_plan = "starter"
        /\ \E r \in subscriptions :
              /\ r.stripe_subscription_id = inv[s].ev.sub
              /\ r.plan = "pending"
              /\ r.status = "unpaid"
        /\ profiles["u1"] = "pending"

\* The provider answered business and active over a starter row.
C32_WitnessPaid ==
    \E s \in Slots :
        /\ InvoicePaid(s)
        /\ inv[s].resp = 200
        /\ \E r \in subscriptions :
              /\ r.stripe_subscription_id = inv[s].ev.sub
              /\ r.plan = "business"
              /\ r.status = "active"
        /\ profiles["u1"] = "business"

\* The fetch threw over a stored row: 500 and the row as it was.
C32_WitnessFetchFailed ==
    \E s \in Slots :
        /\ InvoicePaid(s)
        /\ Made(inv[s], "stripe.subscriptions.retrieve", "error")
        /\ inv[s].resp = 500
        /\ \E r \in subscriptions :
              r.stripe_subscription_id = inv[s].ev.sub /\ r.plan = "starter"

\* An invoice without a subscription id was acknowledged.
C32_WitnessNoSubscription ==
    \E s \in Slots :
        /\ InvoicePaid(s)
        /\ inv[s].ev.sub = Null
        /\ inv[s].resp = 200
        /\ Made(inv[s], "stripe_events.post", "ok")



\* The invocation in slot s handles a checkout.session.completed whose
\* metadata plan names none of the paid tiers.
PendingCheckout(s) ==
    /\ inv[s].route = AppRoute
    /\ inv[s].sig = "valid"
    /\ inv[s].ev.type = "checkout.session.completed"
    /\ LowerTrim(inv[s].ev.m_plan) \notin PAID_PLANS

\* C33: a checkout.session.completed whose metadata plan is missing or names
\* no paid tier upserts the row of its email with plan "pending", status
\* "active" and the session's subscription id, makes no profiles call and
\* leaves every profile as it was; a checkout writes a profile only with a
\* paid tier.
C33_CheckoutNeverLocks ==
    /\ [](\A s \in Slots :
            /\ PendingCheckout(s) =>
                  ~\E c \in Range(inv[s].calls) : c[1] = "profiles.patch"
            /\ ( /\ inv[s].route = AppRoute
                 /\ inv[s].ev.type = "checkout.session.completed"
                 /\ Made(inv[s], "profiles.patch", "ok") ) =>
                    LowerTrim(inv[s].ev.m_plan) \in PAID_PLANS)
    /\ [][\A s \in Slots :
            (PendingCheckout(s) /\ inv'[s] # inv[s] /\ inv[s].pc # "done") =>
               /\ profiles' = profiles
               /\ Made(inv'[s], "subscriptions.post", "ok") =>
                     \E r \in subscriptions' :
                        /\ r.email = OrElse(SessionEmail(inv[s].ev),
                                            SyntheticEmail(SessionUserId(inv[s].ev)))
                        /\ r.stripe_subscription_id = inv[s].ev.sub
                        /\ r.plan = "pending"
                        /\ r.status = "active"]_vars

\* User u1 held starter; a second checkout without a plan replaced the row
\* with a pending, active one and the profile still holds starter.
C33_Witness ==
    \E s \in Slots :
        /\ PendingCheckout(s)
        /\ inv[s].ev.m_plan = Null
        /\ inv[s].resp = 200
        /\ Made(inv[s], "subscriptions.post", "ok")
        /\ \E r \in subscriptions :
              /\ r.stripe_subscription_id = "s2"
              /\ r.plan = "pending"
              /\ r.status = "active"
        /\ profiles["u1"] = "starter"

\* The same with a plan that names no tier.
C33_WitnessUnrecognized ==
    \E s \in Slots :
        /\ PendingCheckout(s)
        /\ inv[s].ev.m_plan = "gold"
        /\ inv[s].resp = 200
        /\ \E r \in subscriptions : r.stripe_subscription_id = "s2" /\ r.plan = "pending"
        /\ profiles["u1"] = "starter"

\* A tier in another spelling is recognized and written to the profile.
C33_WitnessRecognized ==
    \E s \in Slots :
        /\ inv[s].ev.m_plan = " Growth "
        /\ Made(inv[s], "profiles.patch", "ok")
        /\ profiles["u1"] = "growth"



\* The invocation in slot s handles a customer.subscription.deleted or an
\* invoice.payment_failed of a subscription id that no row holds.
ForcedWithoutRow(s) ==
    /\ inv[s].route = AppRoute
    /\ inv[s].sig = "valid"
    /\ inv[s].ev.type \in ForcedTypes
    /\ inv[s].ev.sub # Null
    /\ ~\E r \in subscriptions : r.stripe_subscription_id = inv[s].ev.sub

\* C34: a successful checkout write for an email that has a row puts the
\* session's subscription id on that row, so that no row of that email holds
\* the old id; and while no row holds the subscription id of a
\* customer.subscription.deleted or invoice.payment_failed, its lookup
\* resolves nobody and no step of its invocation changes a subscriptions row
\* or a profile.
C34_Superseded ==
    [][\A s \in Slots :
         /\ (WritesSubscriptions(s) /\ inv[s].pc = "upsert") =>
               LET key == CheckoutRow(inv[s].ev, inv[s]).email
               IN \A r \in subscriptions' :
                     r.email = key => r.stripe_subscription_id = inv[s].ev.sub
         /\ (ForcedWithoutRow(s) /\ inv'[s] # inv[s] /\ inv[s].pc # "done") =>
               /\ subscriptions' = subscriptions
               /\ profiles' = profiles
               /\ Made(inv'[s], "subscriptions.get", "ok") =>
                     (inv'[s].email = Null /\ inv'[s].userId = Null)]_vars

\* After the checkout of s2 took the row of b@x, the cancellation of s1 was
\* applied and acknowledged: the row holds s2, active, and the profile holds
\* growth.
C34_Witness ==
    \E s \in Slots :
        /\ ForcedWithoutRow(s)
        /\ inv[s].ev.type = "customer.subscription.deleted"
        /\ inv[s].ev.sub = "s1"
        /\ inv[s].resp = 200
        /\ Made(inv[s], "subscriptions.patch", "ok")
        /\ \A e \in issued : e.type = "checkout.session.completed" => e \in stripe_events
        /\ Cardinality({ e \in issued : e.type = "checkout.session.completed" }) = 2
        /\ subscriptions = { Row("b@x", "u1", "c1", "s2", "growth", "active", Null) }
        /\ profiles["u1"] = "growth"

\* The same for a failed payment of s1.
C34_WitnessPaymentFailed ==
    \E s \in Slots :
        /\ ForcedWithoutRow(s)
        /\ inv[s].ev.type = "invoice.payment_failed"
        /\ inv[s].resp = 200
        /\ Made(inv[s], "subscriptions.patch", "ok")
        /\ Cardinality({ e \in issued : e.type = "checkout.session.completed" }) = 2
        /\ subscriptions = { Row("b@x", "u1", "c1", "s2", "growth", "active", Null) }
        /\ profiles["u1"] = "growth"



\* The identity keys the event of slot s can resolve to: the session's own
\* userId and email on checkout.session.completed, and otherwise the user_id
\* and email of a stored row of the event's subscription id, or nobody.
KeysOf(s) ==
    LET e == inv[s].ev
    IN IF e.type = "checkout.session.completed"
       THEN { [userId |-> ClaimedUserId(e), email |-> SessionEmail(e)] }
       ELSE { [userId |-> r.user_id, email |-> r.email] :
                 r \in { q \in subscriptions : q.stripe_subscription_id = e.sub } }
            \cup { [userId |-> Null, email |-> Null] }

\* The users whose profile plan the step changes.
Changed == { u \in UserIds : profiles'[u] # profiles[u] }

\* C35: an invocation issues at most one profiles write; a step that changes
\* a profile is that write of one invocation, and the profiles it changes are
\* those selected by one identity key of its event (the resolved userId, else
\* the resolved email), at most one user; every other user's profile is as it
\* was.
C35_UserIsolation ==
    /\ [](\A s \in Slots :
            inv[s].route = AppRoute =>
               Cardinality({ i \in 1..Len(inv[s].calls) :
                               inv[s].calls[i][1] = "profiles.patch" }) <= 1)
    /\ [][profiles' # profiles =>
            \E s \in Slots :
                /\ inv[s].pc = "setplan"
                /\ inv'[s].calls = Append(inv[s].calls, <<"profiles.patch", "ok">>)
                /\ \E k \in KeysOf(s) : Changed \subseteq Targets(k.userId, k.email)
                /\ Cardinality(Changed) <= 1]_vars

\* User u2 held growth; a checkout of user u1 that carries the email of u2's
\* profile set u1 to starter and left u2 at growth.
C35_Witness ==
    \E s \in Slots :
        /\ inv[s].ev.type = "checkout.session.completed"
        /\ inv[s].ev.client_ref = "u1"
        /\ SessionEmail(inv[s].ev) = "b@x"
        /\ inv[s].pc = "mark"
        /\ Made(inv[s], "profiles.patch", "ok")
        /\ profiles = [u \in UserIds |-> IF u = "u1" THEN "starter" ELSE "growth"]

\* An event that takes its key from the stored row changed the profile of
\* the row's user only.
C35_WitnessFromRow ==
    \E s \in Slots :
        /\ inv[s].ev.type = "customer.subscription.deleted"
        /\ inv[s].pc = "mark"
        /\ Made(inv[s], "profiles.patch", "ok")
        /\ inv[s].userId = "u2"
        /\ profiles = [u \in UserIds |-> IF u = "u1" THEN "starter" ELSE "pending"]

\* A checkout identified by email only changed the profile with that email.
C35_WitnessEmail ==
    \E s \in Slots :
        /\ inv[s].ev.type = "checkout.session.completed"
        /\ inv[s].userId = Null
        /\ inv[s].email = "b@x"
        /\ inv[s].pc = "mark"
        /\ Made(inv[s], "profiles.patch", "ok")
        /\ profiles = [u \in UserIds |-> IF u = "u1" THEN "starter" ELSE "business"]



\* The customers created at the provider for user u.
CustomersOf(u) == { c \in customers : c.user_id = u }

\* C36: whatever requests for a user have been handled, at most one provider
\* customer has been created for that user, and once a request for the user
\* was answered 200 exactly one has, the one the stripe_customers row names.
C36_OneCustomerPerUser ==
    \A u \in UserIds :
        /\ Cardinality(CustomersOf(u)) <= 1
        /\ (\E s \in Slots : Request(s).userId = u /\ Request(s).resp = 200) =>
              /\ Cardinality(CustomersOf(u)) = 1
              /\ \E c \in CustomersOf(u) : stripe_customer_of[u] = c.id

\* The stripe_customers row of a user names a customer created for that user.
C36_RowNamesOwnCustomer ==
    \A u \in UserIds :
        Truthy(stripe_customer_of[u]) =>
            \E c \in CustomersOf(u) : c.id = stripe_customer_of[u]

\* Two requests for user u1 both read no row before either wrote: two
\* customers were created, and both requests were answered 200.
C36_RacedTwoCustomers ==
    /\ \A s \in Slots :
          /\ Request(s).userId = "u1"
          /\ Request(s).resp = 200
          /\ \E t \in Slots \ {s} :
                Made(Request(s), "stripe_customers.select", "ok")
                   /\ Request(t).calls # <<>>
    /\ Cardinality(CustomersOf("u1")) = 2
    /\ Cardinality({ Request(s).stripeCustomerId : s \in Slots }) = 2

\* A request whose stripe_customers write failed left a customer without a
\* row, and the next request for the user created another one.
C36_RetriedTwoCustomers ==
    \E s \in Slots :
        /\ Request(s).userId = "u1"
        /\ Request(s).resp = 200
        /\ \A t \in Slots \ {s} : Request(t).pc = "idle"
        /\ Cardinality(CustomersOf("u1")) = 2



\* The request served last; none before the first.
LastServed == IF generated = <<>> THEN NoRequest ELSE generated[1]

\* The step serves a request of a generate handler.
Served ==
    \/ generated' # generated
    \/ handbooks' # handbooks /\ Cardinality(handbooks') = Cardinality(handbooks)

\* The request served carries a userId and the stored handbook another
\* user_id.
ForeignHandbook ==
    /\ Truthy(LastServed'.userId)
    /\ \E r \in HandbookRows(handbooks, LastServed'.handbookId) :
          r.user_id # LastServed'.userId

\* The request served names a handbook id that no row holds.
MissingHandbook ==
    /\ Truthy(LastServed'.handbookId)
    /\ HandbookRows(handbooks, LastServed'.handbookId) = {}

\* The handler called the text generator.
Generated(g) == \E c \in Range(g.calls) : c[1] = "generator"

\* C37: in the two handlers with an ownership check, a request that carries a
\* userId other than the stored handbook's user_id is answered 403, and a
\* request for a handbook id that no row holds is answered 404; in both the
\* text generator is not called and the handbooks table is unchanged
\* (a request whose lookup failed aside).
C37_OwnershipGate ==
    [][( /\ Served
         /\ LastServed'.route \in {HandbooksApiRoute, HandbooksRoute}
         /\ ~Made(LastServed', "handbooks.select", "error") ) =>
            /\ ForeignHandbook =>
                  /\ LastServed'.resp = 403
                  /\ ~Generated(LastServed')
                  /\ handbooks' = handbooks
            /\ MissingHandbook =>
                  /\ LastServed'.resp \in {400, 404}
                  /\ isUuid(LastServed'.handbookId) => LastServed'.resp = 404
                  /\ ~Generated(LastServed')
                  /\ handbooks' = handbooks]_vars

\* What holds: once a handler has read the handbook, a missing row is
\* answered 404 and a row with another user's user_id 403, with no
\* generation and no write.
C37_GateWhenRead ==
    [][( /\ Served
         /\ LastServed'.route \in {HandbooksApiRoute, HandbooksRoute}
         /\ Made(LastServed', "handbooks.select", "ok") ) =>
            /\ ( /\ ForeignHandbook
                 /\ \E r \in HandbookRows(handbooks, LastServed'.handbookId) :
                       Truthy(r.user_id) ) =>
                  /\ LastServed'.resp = 403
                  /\ ~Generated(LastServed')
                  /\ handbooks' = handbooks
            /\ MissingHandbook =>
                  /\ LastServed'.resp = 404
                  /\ ~Generated(LastServed')
                  /\ handbooks' = handbooks]_vars

\* app/handbooks/generate/route.ts served a request without a userId for a
\* handbook that no row holds: the generator ran and the answer is 200.
C37_GeneratedWithoutRow ==
    /\ LastServed.route = HandbooksRoute
    /\ LastServed.userId = Null
    /\ LastServed.handbookId = "h2"
    /\ HandbookRows(handbooks, "h2") = {}
    /\ Generated(LastServed)
    /\ LastServed.resp = 200

\* app/api/handbooks/generate/route.ts served user u2 a handbook whose row
\* has no user_id: generated and written.
C37_UnownedHandbookWritten ==
    /\ LastServed.route = HandbooksApiRoute
    /\ LastServed.userId = "u2"
    /\ LastServed.resp = 200
    /\ \E r \in handbooks :
          /\ r.id = LastServed.handbookId
          /\ r.user_id = Null
          /\ r.content_md = LastServed.content_md

\* User u2 asked for the handbook of u1: 403, the row as it was.
C37_Refused ==
    /\ LastServed.userId = "u2"
    /\ LastServed.resp = 403
    /\ ~Generated(LastServed)
    /\ \E r \in handbooks :
          r.id = LastServed.handbookId /\ r.user_id = "u1" /\ r.content_md = Null



\* Generator output that trims to nothing.
Blank == {Empty, "  "}

\* What C38 states of a request served by one of the handlers of routes.
Persisted(routes) ==
    (Served /\ LastServed'.route \in routes) =>
        /\ LastServed'.resp = 200 =>
              /\ Truthy(LastServed'.content_md)
              /\ Made(LastServed', "handbooks.update", "ok")
              /\ \E r \in handbooks' :
                    /\ r.id = LastServed'.handbookId
                    /\ r.content_md = LastServed'.content_md
              /\ \A r \in handbooks :
                    r.id # LastServed'.handbookId => r \in handbooks'
        /\ LastServed'.resp # 200 =>
              /\ LastServed'.content_md = Null
              /\ handbooks' = handbooks
        /\ Made(LastServed', "handbooks.update", "error") =>
              LastServed'.resp \in {400, 500}
        /\ ( /\ Made(LastServed', "generator", "ok")
             /\ ~\E c \in Range(LastServed'.calls) : c[1] = "handbooks.update" ) =>
              LastServed'.resp = 500

\* C38: app/api/handbooks/generate/route.ts and unnamed/part_001 answer 200
\* only with a content_md that their update has stored in the handbooks row
\* of handbookId, and they change no other row; any other answer carries no
\* content_md and leaves the table as it was; a failed update is answered
\* with an error status; generator output that trims to nothing is answered
\* 500 without an update, and no row ever holds blank content.
C38_Persistence ==
    /\ [](\A r \in handbooks : r.content_md \notin Blank)
    /\ [][Persisted({HandbooksApiRoute, HandbooksUnnamedRoute})]_vars

\* The same of all three handlers: it fails for the one that reads the
\* handbook only when the request carries a userId.
C38_PersistenceEveryHandler ==
    [][Persisted({HandbooksApiRoute, HandbooksRoute, HandbooksUnnamedRoute})]_vars

\* app/handbooks/generate/route.ts answered 200 with content_md and no row
\* holds it.
C38_AnsweredWithoutRow ==
    /\ LastServed.route = HandbooksRoute
    /\ LastServed.resp = 200
    /\ LastServed.content_md = "# Handbook A"
    /\ Made(LastServed, "handbooks.update", "ok")
    /\ ~\E r \in handbooks : r.content_md = "# Handbook A"

\* A row held "# Handbook A"; the answer's content, taken from output[] when
\* output_text is missing, replaced it in the row of handbookId.
C38_Witness ==
    /\ LastServed.route = HandbooksApiRoute
    /\ LastServed.resp = 200
    /\ LastServed.content_md = "# From output"
    /\ Made(LastServed, "handbooks.update", "ok")
    /\ \E r \in handbooks :
          r.id = LastServed.handbookId /\ r.content_md = "# From output"
    /\ \E r \in handbooks :
          r.id # LastServed.handbookId /\ r.content_md = "# Handbook A"

\* The update failed: an error status, and the row keeps its older content.
C38_SaveFailed ==
    /\ LastServed.route = HandbooksUnnamedRoute
    /\ Made(LastServed, "handbooks.update", "error")
    /\ LastServed.resp = 400
    /\ \E r \in handbooks :
          r.id = LastServed.handbookId /\ r.content_md = "# Handbook A"

====
